---------------------------- MODULE Spec2Model ----------------------------
(***************************************************************************)
(* FlowForge agent: the execution monitor (services/execution-monitor),    *)
(* the orchestration service (core/agent-service), the planner-output      *)
(* sanitizer (services/planner-client) and the workflow compiler           *)
(* (services/workflow-compiler), each as a state machine of its own        *)
(* specification over one shared set of variables.                         *)
(***************************************************************************)
EXTENDS Integers, Sequences, FiniteSets, TLC

(***************************************************************************)
(* Bounds of the model.                                                    *)
(***************************************************************************)
\* Polls of one execution whose outcome is kept in the history `observed`.
MaxObserved == 4
\* The clock stops advancing here (milliseconds).
MaxClockMs == 40000

Min(a, b) == IF a < b THEN a ELSE b

(***************************************************************************)
(* Execution monitor: constants.                                           *)
(***************************************************************************)
SCHEDULED_POLL_MS == 30000
SINGLE_EXECUTION_POLL_MS == 5000
\* didSwapExecute: a run longer than this counts as a swap that happened.
SWAP_DURATION_HEURISTIC_MS == 10000

\* Windows (durationSeconds) a scheduled tracker is started with.
DurationSecondsInputs == {20, 35}

ExecIds == {"e1", "e2"}
IdBefore(a, b) == a = "e1" /\ b = "e2"
NoExec == [status |-> "NONE"]

\* Per-node execution records of a WorkflowExecutionStatus.
NodeSwapOkTx == [node_type |-> "SWAP", status |-> "SUCCESS", txHash |-> "valid", chain |-> "ARBITRUM"]
NodeSwapOkNoTx == [node_type |-> "SWAP", status |-> "SUCCESS", txHash |-> "none", chain |-> "none"]
NodeSwapFailed == [node_type |-> "SWAP", status |-> "FAILED", txHash |-> "malformed", chain |-> "none"]
NodeOracleOk == [node_type |-> "CHAINLINK_PRICE_ORACLE", status |-> "SUCCESS", txHash |-> "none", chain |-> "none"]

St(status, nodes, err, dur) ==
    [status |-> status, nodeExecutions |-> nodes, errorMessage |-> err, durationMs |-> dur]

\* The execution statuses the backend may report for an execution.
StatusRecords ==
    { St("PENDING", <<>>, FALSE, -1),
      St("RUNNING", <<>>, FALSE, -1),
      St("WAITING_FOR_SIGNATURE", <<>>, FALSE, -1),
      St("SUCCESS", <<>>, FALSE, 2000),
      St("SUCCESS", <<NodeOracleOk>>, FALSE, 20000),
      St("SUCCESS", <<NodeOracleOk, NodeSwapOkTx>>, FALSE, 2000),
      St("SUCCESS", <<NodeSwapOkNoTx>>, FALSE, -1),
      St("FAILED", <<NodeSwapFailed>>, TRUE, 2000),
      St("FAILED", <<>>, FALSE, -1) }

\* The statuses the backend reports to a tracker of one execution.
SingleStatusRecords ==
    { St("PENDING", <<>>, FALSE, -1),
      St("WAITING_FOR_SIGNATURE", <<>>, FALSE, -1),
      St("SUCCESS", <<NodeOracleOk>>, FALSE, 2000),
      St("SUCCESS", <<NodeOracleOk, NodeSwapOkTx>>, FALSE, 2000),
      St("FAILED", <<NodeSwapFailed>>, TRUE, 2000),
      St("FAILED", <<>>, FALSE, -1) }

\* The statuses the backend reports for the runs of a scheduled workflow.
SchedStatusRecords ==
    { St("PENDING", <<>>, FALSE, -1),
      St("WAITING_FOR_SIGNATURE", <<>>, FALSE, -1),
      St("SUCCESS", <<NodeOracleOk>>, FALSE, 2000),
      St("SUCCESS", <<NodeOracleOk>>, FALSE, 20000),
      St("SUCCESS", <<NodeOracleOk, NodeSwapOkTx>>, FALSE, 2000),
      St("FAILED", <<NodeSwapFailed>>, TRUE, 2000) }

VARIABLES
    \* ---- the world the trackers run in
    now,              \* Date.now(), milliseconds
    executions,       \* backend: execution id -> its current status record
    netUp,            \* a workflow-backend call made now succeeds
    tgUp,             \* a bot.api.sendMessage made now succeeds
    sent,             \* every sendMessage attempted, in order
    cancels,          \* every cancelTimeBlock attempted, in order
    \* ---- waitForSingleExecutionTerminal
    waitPc,           \* "idle" | "poll" | "sleep" | "returned"
    waitExec,         \* executionId
    signingSent,      \* let signingSent
    waitResult,       \* the status returned
    observed,         \* outcome of each poll so far (a status, or "THROW")
    \* ---- monitorScheduledWorkflow
    schedPc,          \* "off" | "check" | "list" | "iter" | "waiting" | "sleep" | "done"
    startedAt,
    timeoutAt,
    seenExecutionIds,
    signingSentForExecution,
    execList,         \* the executions the last listExecutions returned
    execIdx,          \* position of the for loop in execList
    \* ---- planner client: parsePlannerPayload, sanitizePlannerResult
    llmData,          \* response.data of the chat call: [json, text]
    sanPc,            \* "off" | "parse" | "sanitize" | "again" | "done"
    parsedPayload,    \* what parsePlannerPayload returned
    sanResult,        \* outcome of sanitizePlannerResult(parsedPayload)
    sanAgain,         \* outcome of sanitizing the returned plan once more
    \* ---- workflow compiler: compilePlannerResultToWorkflow
    nextUuid,         \* randomUUID: number of the next identifier it returns
    cmpPc,            \* "off" | "call" | "done"
    cmpOptions,       \* CompileWorkflowOptions: [plan, chatId, telegramConnectionId]
    cmpResult,        \* the CompileWorkflowResult returned, or the error thrown
    \* ---- orchestration service: AgentService.plan, AgentService.execute
    workflowClient,   \* config.workflowClient is a client (TRUE) or null (FALSE)
    sessions,         \* the session store: session key -> AgentSession
    started,          \* number of plan and execute calls made so far
    procs,            \* each call in flight: its position and its locals
    \* ---- backend clients: WorkflowClient.createWorkflow, BackendContextClient.fetchPlannerContext
    baseUrl,          \* config.baseUrl is set (TRUE) or not (FALSE)
    createPc,         \* "off" | "call" | "fetch" | "sleep" | "returned" | "thrown"
    attempt,          \* let attempt
    createLog,        \* every fetch outcome and every sleep of the call, in order
    createResult,     \* the response returned, or the error thrown
    contextPc,        \* "off" | "call" | "run" | "sleep" | "rerun" | "sleepCatch" | "runCatch" | "returned" | "planned"
    runs,             \* the outcome of each run() so far
    contextResult,    \* what fetchPlannerContext returned, or the error thrown
    supplementalContext,  \* what plan handed to generateWorkflowPlan
    \* ---- planner client: LlmServiceClient.generateWorkflowPlan
    llmPc,            \* "off" | "chat" | "sleep" | "returned" | "thrown" | "planned" | "rejected"
    llmAttempt,       \* let attempt
    failures,         \* const failures
    chatLog,          \* what each callChat request met, and every sleep, in order
    llmResult         \* the plan returned, or the error thrown

worldVars == <<now, executions, netUp, tgUp, sent, cancels>>
waitVars == <<waitPc, waitExec, signingSent, waitResult, observed>>
schedVars == <<schedPc, startedAt, timeoutAt, seenExecutionIds,
               signingSentForExecution, execList, execIdx>>
monitorVars == <<worldVars, waitVars, schedVars>>
sanVars == <<llmData, sanPc, parsedPayload, sanResult, sanAgain>>
cmpVars == <<nextUuid, cmpPc, cmpOptions, cmpResult>>
svcVars == <<workflowClient, sessions, started, procs>>
createVars == <<createPc, attempt, createLog, createResult>>
contextVars == <<contextPc, runs, contextResult, supplementalContext>>
llmVars == <<llmPc, llmAttempt, failures, chatLog, llmResult>>
clientVars == <<baseUrl, createVars, contextVars, llmVars>>
pipelineVars == <<sanVars, cmpVars, svcVars, clientVars>>

vars == <<monitorVars, pipelineVars>>

(***************************************************************************)
(* Strings and JSON values.  A string is the sequence of its characters,   *)
(* so that trim, slice, toLowerCase and replace act on it as they do in    *)
(* the program.                                                            *)
(***************************************************************************)
\* The character U+0060, which a string of this notation cannot hold.
Backtick == "BACKTICK"

IsSpace(c) == c \in {" ", "\t"}

RECURSIVE trimStart(_)
trimStart(s) == IF s # <<>> /\ IsSpace(Head(s)) THEN trimStart(Tail(s)) ELSE s

RECURSIVE trimEnd(_)
trimEnd(s) ==
    IF s # <<>> /\ IsSpace(s[Len(s)]) THEN trimEnd(SubSeq(s, 1, Len(s) - 1)) ELSE s

\* String.prototype.trim
trim(s) == trimEnd(trimStart(s))

\* String.prototype.slice(0, n) and Array.prototype.slice(0, n)
slice(s, n) == SubSeq(s, 1, Min(n, Len(s)))

UpperLetters == <<"A", "B", "C", "D", "E", "F", "G", "H", "I", "J", "K", "L", "M", "N", "O", "P", "Q", "R", "S", "T", "U", "V", "W", "X", "Y", "Z">>
LowerLetters == <<"a", "b", "c", "d", "e", "f", "g", "h", "i", "j", "k", "l", "m", "n", "o", "p", "q", "r", "s", "t", "u", "v", "w", "x", "y", "z">>

\* String.prototype.toLowerCase
toLowerCase(s) ==
    [i \in DOMAIN s |->
        IF \E j \in DOMAIN UpperLetters : UpperLetters[j] = s[i]
        THEN LowerLetters[CHOOSE j \in DOMAIN UpperLetters : UpperLetters[j] = s[i]]
        ELSE s[i]]

\* String.prototype.includes
includes(s, sub) ==
    \E i \in 1..(Len(s) - Len(sub) + 1) : SubSeq(s, i, i + Len(sub) - 1) = sub

\* n copies of the character c
Rep(c, n) == [i \in 1..n |-> c]

\* The values JSON.parse returns, and undefined.
JUndefined == [t |-> "undefined"]
JNull == [t |-> "null"]
JBool(b) == [t |-> "boolean", b |-> b]
JNum(n) == [t |-> "number", n |-> n]
JStr(s) == [t |-> "string", s |-> s]
JArr(a) == [t |-> "array", a |-> a]
\* An object: its own properties in insertion order, each key once.
JObj(entries) == [t |-> "object", f |-> entries]
Prop(k, v) == [k |-> k, v |-> v]

\* !!v
Truthy(v) ==
    CASE v.t = "undefined" -> FALSE
      [] v.t = "null" -> FALSE
      [] v.t = "boolean" -> v.b
      [] v.t = "number" -> v.n # 0
      [] v.t = "string" -> v.s # <<>>
      [] OTHER -> TRUE

\* typeof v === 'object'
TypeofObject(v) == v.t \in {"object", "array", "null"}

\* typeof v === 'string'
TypeofString(v) == v.t = "string"

\* v.k for one of the property names the program reads.
Get(v, k) ==
    IF v.t = "object" /\ (\E i \in DOMAIN v.f : v.f[i].k = k)
    THEN v.f[CHOOSE i \in DOMAIN v.f : v.f[i].k = k].v
    ELSE JUndefined

\* output[k] = v on a record kept as its entries in insertion order.
Put(entries, k, v) ==
    IF \E i \in DOMAIN entries : entries[i].k = k
    THEN [i \in DOMAIN entries |->
             IF entries[i].k = k THEN Prop(k, v) ELSE entries[i]]
    ELSE Append(entries, Prop(k, v))

\* The planner client before a response has arrived.
SanOff ==
    /\ sanPc = "off"
    /\ llmData = JUndefined
    /\ parsedPayload = JUndefined
    /\ sanResult = JUndefined
    /\ sanAgain = JUndefined

\* The compiler before a call.
CmpOff ==
    /\ nextUuid = 1
    /\ cmpPc = "off"
    /\ cmpOptions = JUndefined
    /\ cmpResult = JUndefined

\* The calls the orchestration service runs at a time.
Procs == {"call"}

\* The locals of a call that has not been made.
IdleCall ==
    [pc |-> "idle", kind |-> "none", request |-> JUndefined,
     plannerResult |-> JUndefined, plan |-> JUndefined,
     executionUserId |-> <<>>, telegramConnectionId |-> JUndefined,
     payload |-> JUndefined, schedule |-> JUndefined, created |-> JUndefined,
     sessionForWrite |-> JUndefined,
     calls |-> <<>>, result |-> JUndefined]

\* The orchestration service before any call.
SvcOff ==
    /\ workflowClient = TRUE
    /\ sessions = <<>>
    /\ started = 0
    /\ procs = [p \in Procs |-> IdleCall]

\* The backend clients before a call.
CreateOff ==
    /\ createPc = "off"
    /\ attempt = 1
    /\ createLog = <<>>
    /\ createResult = JUndefined

ContextOff ==
    /\ contextPc = "off"
    /\ runs = <<>>
    /\ contextResult = JUndefined
    /\ supplementalContext = JUndefined

LlmOff ==
    /\ llmPc = "off"
    /\ llmAttempt = 1
    /\ failures = <<>>
    /\ chatLog = <<>>
    /\ llmResult = JUndefined

ClientsOff == baseUrl = TRUE /\ CreateOff /\ ContextOff /\ LlmOff

PipelineIdle == SanOff /\ CmpOff /\ SvcOff /\ ClientsOff



(***************************************************************************)
(* Execution monitor: helpers.                                             *)
(***************************************************************************)
Terminal == {"SUCCESS", "FAILED"}

\* sleep(ms) and the time an awaited call takes: the clock saturates at MaxClockMs.
ClockAfter(ms) == Min(now + ms, MaxClockMs)

\* getTxLinksFromExecution: one link per node whose output_data.txHash is a
\* well-formed hash, named by the node's chain.
RECURSIVE TxLinks(_)
TxLinks(nodes) ==
    IF nodes = <<>> THEN <<>>
    ELSE LET n == Head(nodes)
         IN  (IF n.txHash = "valid" THEN <<n.chain>> ELSE <<>>) \o TxLinks(Tail(nodes))

getTxLinksFromExecution(status) == TxLinks(status.nodeExecutions)

\* buildSuccessMessage: the empty text when the execution produced no transaction.
buildSuccessMessage(status) ==
    LET txLinks == getTxLinksFromExecution(status)
    IN  IF Len(txLinks) = 0 THEN <<>> ELSE txLinks

\* didSwapExecute: a successful SWAP node, else the duration heuristic.
didSwapExecute(execution) ==
    \/ \E i \in 1..Len(execution.nodeExecutions) :
          /\ execution.nodeExecutions[i].node_type = "SWAP"
          /\ execution.nodeExecutions[i].status = "SUCCESS"
    \/ /\ execution.durationMs >= 0
       /\ execution.durationMs > SWAP_DURATION_HEURISTIC_MS

\* The poll a message is caused by: its place in the history, 0 beyond it.
PollNo == IF schedPc = "off" /\ Len(observed) < MaxObserved THEN Len(observed) + 1 ELSE 0

\* A message handed to safeSendMessage; `delivered` is whether sendMessage threw.
Msg(kind, executionId, detail) ==
    [kind |-> kind, executionId |-> executionId, detail |-> detail,
     delivered |-> tgUp, at |-> 0, poll |-> PollNo]

\* safeSendMessage: the send is attempted, a failure is logged and swallowed.
safeSendMessage_Dropped(log, msg) == log
safeSendMessage(log, msg) == Append(log, msg)

\* sendSigningMessage: the signing link names the execution.
sendSigningMessage(log, executionId) ==
    safeSendMessage(log, Msg("signing", executionId, <<executionId>>))

\* `state === 'WAITING_FOR_SIGNATURE' && !signingSent`
ShouldSendSigning_IgnoreFlag(state, alreadySent) == state = "WAITING_FOR_SIGNATURE"
ShouldSendSigning(state, alreadySent) ==
    state = "WAITING_FOR_SIGNATURE" /\ ~alreadySent

\* The catch block of the poll loop logs and falls through to the sleep.
PcAfterCatch_Return == "returned"
PcAfterCatch == "sleep"

\* The history keeps the first MaxObserved poll outcomes of a tracker of one
\* execution that was started on its own.
Observe(outcome) ==
    IF schedPc = "off" /\ Len(observed) < MaxObserved
    THEN Append(observed, outcome)
    ELSE observed

CountKind(log, kind) == Cardinality({i \in 1..Len(log) : log[i].kind = kind})
CountKindFor(log, kind, e) ==
    Cardinality({i \in 1..Len(log) : log[i].kind = kind /\ log[i].executionId = e})

(***************************************************************************)
(* The world: the backend changes the status of an execution, calls start  *)
(* or stop failing, time passes while a call is awaited.                   *)
(***************************************************************************)
BackendStep(Records) ==
    /\ \E e \in ExecIds, st \in Records :
          /\ executions[e] # NoExec
          /\ executions' = [executions EXCEPT ![e] = st]
    /\ UNCHANGED <<now, netUp, tgUp, sent, cancels>>

NetworkStep ==
    /\ \E n \in BOOLEAN, t \in BOOLEAN :
          /\ <<n, t>> # <<netUp, tgUp>>
          /\ netUp' = n
          /\ tgUp' = t
    /\ UNCHANGED <<now, executions, sent, cancels>>

(***************************************************************************)
(* waitForSingleExecutionTerminal: one iteration of its loop.              *)
(***************************************************************************)
WaitPollThrows ==
    /\ waitPc = "poll"
    /\ (~netUp \/ executions[waitExec] = NoExec)
    /\ observed' = Observe("THROW")
    /\ waitPc' = PcAfterCatch
    /\ UNCHANGED <<now, executions, netUp, tgUp, sent, cancels>>
    /\ UNCHANGED <<waitExec, signingSent, waitResult>>

WaitPollStatus ==
    /\ waitPc = "poll"
    /\ netUp
    /\ executions[waitExec] # NoExec
    /\ LET status == executions[waitExec]
           state == status.status
           sign == ShouldSendSigning(state, signingSent)
           seen == Observe(state)
           stamp(m) == m
           afterSign == IF sign THEN safeSendMessage(sent, stamp(Msg("signing", waitExec, <<waitExec>>)))
                        ELSE sent
           message == buildSuccessMessage(status)
       IN  /\ observed' = seen
           /\ signingSent' = (signingSent \/ sign)
           /\ IF state = "SUCCESS"
              THEN /\ sent' = IF Len(message) > 0
                              THEN safeSendMessage(afterSign, stamp(Msg("success", waitExec, message)))
                              ELSE afterSign
                   /\ waitResult' = status
                   /\ waitPc' = "returned"
              ELSE IF state = "FAILED"
              THEN /\ sent' = safeSendMessage(afterSign, stamp(Msg("failed", waitExec, <<status.errorMessage>>)))
                   /\ waitResult' = status
                   /\ waitPc' = "returned"
              ELSE /\ sent' = afterSign
                   /\ waitPc' = "sleep"
                   /\ UNCHANGED waitResult
    /\ UNCHANGED <<now, executions, netUp, tgUp, cancels, waitExec>>

WaitSleep ==
    /\ waitPc = "sleep"
    \* only the scheduled tracker reads the clock: it stands still without one
    /\ now' = IF schedPc = "off" THEN now ELSE ClockAfter(SINGLE_EXECUTION_POLL_MS)
    /\ waitPc' = "poll"
    /\ UNCHANGED <<executions, netUp, tgUp, sent, cancels>>
    /\ UNCHANGED <<waitExec, signingSent, waitResult, observed>>

(***************************************************************************)
(* monitorSingleExecution: the wait loop, signingAlreadySent false.        *)
(***************************************************************************)
WorldInit ==
    /\ now = 0
    /\ netUp \in BOOLEAN
    /\ tgUp \in BOOLEAN
    /\ sent = <<>>
    /\ cancels = <<>>

WaitIdle ==
    /\ waitPc = "idle"
    /\ waitExec = "e1"
    /\ signingSent = FALSE
    /\ waitResult = NoExec
    /\ observed = <<>>

SchedOff ==
    /\ schedPc = "off"
    /\ startedAt = 0
    /\ timeoutAt = 0
    /\ seenExecutionIds = {}
    /\ signingSentForExecution = {}
    /\ execList = <<>>
    /\ execIdx = 0

monitorSingleExecution ==
    /\ waitPc = "poll"
    /\ waitExec = "e1"
    /\ signingSent = FALSE
    /\ waitResult = NoExec
    /\ observed = <<>>

SingleInit ==
    /\ WorldInit
    /\ executions \in {f \in [ExecIds -> SingleStatusRecords \cup {NoExec}] :
                          f["e1"] # NoExec /\ f["e2"] = NoExec}
    /\ monitorSingleExecution
    /\ SchedOff
    /\ PipelineIdle

SingleNext ==
    \/ (WaitPollThrows /\ UNCHANGED <<schedVars, pipelineVars>>)
    \/ (WaitPollStatus /\ UNCHANGED <<schedVars, pipelineVars>>)
    \/ (WaitSleep /\ UNCHANGED <<schedVars, pipelineVars>>)
    \/ (BackendStep(SingleStatusRecords) /\ UNCHANGED <<waitVars, schedVars, pipelineVars>>)
    \/ (NetworkStep /\ UNCHANGED <<waitVars, schedVars, pipelineVars>>)

SpecSingle == SingleInit /\ [][SingleNext]_vars

\* The poll loop is a running task: its next step is eventually taken.
FairSingle ==
    /\ SpecSingle
    /\ WF_vars(WaitPollThrows /\ UNCHANGED <<schedVars, pipelineVars>>)
    /\ WF_vars(WaitPollStatus /\ UNCHANGED <<schedVars, pipelineVars>>)
    /\ WF_vars(WaitSleep /\ UNCHANGED <<schedVars, pipelineVars>>)


(***************************************************************************)
(* monitorScheduledWorkflow.                                               *)
(***************************************************************************)
\* A run of the scheduled workflow moves forward through its life:
\* PENDING -> (WAITING_FOR_SIGNATURE)? -> SUCCESS | FAILED.
Later(from, to) ==
    \/ from = "PENDING" /\ to # "PENDING"
    \/ from = "WAITING_FOR_SIGNATURE" /\ to \in Terminal

BackendAdvances ==
    /\ \E e \in ExecIds, st \in SchedStatusRecords :
          /\ executions[e] # NoExec
          /\ Later(executions[e].status, st.status)
          /\ executions' = [executions EXCEPT ![e] = st]
    /\ UNCHANGED <<now, netUp, tgUp, sent, cancels>>

\* The recurring trigger starts a run of the workflow.
BackendStartsExecution ==
    /\ \E e \in ExecIds :
          /\ executions[e] = NoExec
          /\ executions' = [executions EXCEPT ![e] = St("PENDING", <<>>, FALSE, -1)]
    /\ UNCHANGED <<now, netUp, tgUp, sent, cancels>>

\* listExecutions: the runs of the workflow, each with its id.
RECURSIVE ListOf(_)
ListOf(ids) ==
    IF ids = {} THEN <<>>
    ELSE LET e == CHOOSE x \in ids : \A y \in ids : x = y \/ IdBefore(x, y)
         IN  <<[id |-> e, st |-> executions[e]]>> \o ListOf(ids \ {e})

listExecutions == ListOf({e \in ExecIds : executions[e] # NoExec})

\* safeGetExecutionStatus: the status, or null when the call fails.
safeGetExecutionStatus(e) == IF netUp THEN executions[e] ELSE NoExec

\* safeCancelTimeBlock: the request is made, a failure is logged and swallowed.
safeCancelTimeBlock_Skipped(log) == log
safeCancelTimeBlock_Twice(log) == Append(Append(log, [ok |-> netUp]), [ok |-> netUp])
safeCancelTimeBlock(log) == Append(log, [ok |-> netUp])

\* `while (Date.now() < timeoutAt)`
WindowOpen_NoCheck == TRUE
WindowOpen == now < timeoutAt

\* `at` is the time of the timeout notification, 0 on every other message.
SchedMsg(kind, executionId, detail) ==
    [kind |-> kind, executionId |-> executionId, detail |-> detail,
     delivered |-> tgUp, at |-> IF kind = "timeout" THEN now ELSE 0, poll |-> 0]

\* appendTxLinks(base, status)
appendTxLinks(status) == getTxLinksFromExecution(status)

SchedCheck ==
    /\ schedPc = "check"
    /\ IF WindowOpen
       THEN /\ schedPc' = "list"
            /\ UNCHANGED sent
       ELSE /\ sent' = safeSendMessage(sent, SchedMsg("timeout", "none", <<>>))
            /\ schedPc' = "done"
    /\ UNCHANGED <<now, executions, netUp, tgUp, cancels>>
    /\ UNCHANGED <<startedAt, timeoutAt, seenExecutionIds, signingSentForExecution,
                   execList, execIdx>>
    /\ UNCHANGED waitVars

SchedList ==
    /\ schedPc = "list"
    /\ IF netUp
       THEN /\ execList' = listExecutions
            /\ execIdx' = 1
            /\ schedPc' = "iter"
       ELSE /\ schedPc' = "sleep"
            /\ UNCHANGED <<execList, execIdx>>
    /\ UNCHANGED worldVars
    /\ UNCHANGED <<startedAt, timeoutAt, seenExecutionIds, signingSentForExecution>>
    /\ UNCHANGED waitVars

\* `seenExecutionIds.has(execution.id)`
AlreadySeen_Never(seen, id) == FALSE
AlreadySeen(seen, id) == id \in seen

\* The body of `for (const execution of executions)` for one execution, up to
\* the call of waitForSingleExecutionTerminal or the end of the body.
SchedIter ==
    /\ schedPc = "iter"
    /\ UNCHANGED <<now, executions, netUp, tgUp, startedAt, timeoutAt>>
    /\ IF execIdx <= Len(execList) THEN UNCHANGED execList ELSE TRUE
    /\ IF execIdx > Len(execList)
       THEN /\ schedPc' = "sleep"
            /\ execList' = <<>>
            /\ execIdx' = 0
            /\ UNCHANGED <<sent, cancels, seenExecutionIds, signingSentForExecution>>
            /\ UNCHANGED waitVars
       ELSE LET execution == execList[execIdx]
                id == execution.id
                status == execution.st.status
                got == safeGetExecutionStatus(id)
                details == IF got = NoExec THEN execution.st ELSE got
            IN  IF AlreadySeen(seenExecutionIds, id)
                THEN /\ execIdx' = execIdx + 1
                     /\ UNCHANGED <<sent, cancels, seenExecutionIds, signingSentForExecution, schedPc>>
                     /\ UNCHANGED waitVars
                ELSE /\ seenExecutionIds' = seenExecutionIds \cup {id}
                     /\ IF status = "WAITING_FOR_SIGNATURE"
                        THEN /\ signingSentForExecution' = signingSentForExecution \cup {id}
                             /\ sent' = safeSendMessage(sent, SchedMsg("signing", id, <<id>>))
                             /\ waitPc' = "poll"
                             /\ waitExec' = id
                             /\ signingSent' = TRUE
                             /\ waitResult' = NoExec
                             /\ schedPc' = "waiting"
                             /\ UNCHANGED <<cancels, execIdx, observed>>
                        ELSE IF status = "SUCCESS" /\ didSwapExecute(details)
                        THEN /\ cancels' = safeCancelTimeBlock(cancels)
                             /\ sent' = safeSendMessage(sent,
                                    SchedMsg("swapDone", id,
                                             IF got = NoExec THEN <<>> ELSE appendTxLinks(got)))
                             /\ schedPc' = "done"
                             /\ UNCHANGED <<signingSentForExecution, execIdx>>
                             /\ UNCHANGED waitVars
                        ELSE IF status = "FAILED"
                        THEN /\ sent' = safeSendMessage(sent,
                                    SchedMsg("runFailed", id, <<details.errorMessage>>))
                             /\ execIdx' = execIdx + 1
                             /\ UNCHANGED <<cancels, signingSentForExecution, schedPc>>
                             /\ UNCHANGED waitVars
                        ELSE /\ execIdx' = execIdx + 1
                             /\ UNCHANGED <<sent, cancels, signingSentForExecution, schedPc>>
                             /\ UNCHANGED waitVars

\* waitForSingleExecutionTerminal has returned finalStatus.
SchedWaitReturned ==
    /\ schedPc = "waiting"
    /\ waitPc = "returned"
    /\ waitPc' = "idle"
    /\ IF waitResult.status = "SUCCESS"
       THEN /\ cancels' = safeCancelTimeBlock(cancels)
            /\ sent' = safeSendMessage(sent, SchedMsg("swapDone", waitExec, appendTxLinks(waitResult)))
            /\ schedPc' = "done"
            /\ UNCHANGED execIdx
       ELSE /\ execIdx' = execIdx + 1
            /\ schedPc' = "iter"
            /\ UNCHANGED <<sent, cancels>>
    /\ UNCHANGED <<now, executions, netUp, tgUp>>
    /\ UNCHANGED <<waitExec, signingSent, waitResult, observed>>
    /\ UNCHANGED <<startedAt, timeoutAt, seenExecutionIds, signingSentForExecution, execList>>

SchedSleep ==
    /\ schedPc = "sleep"
    /\ now' = ClockAfter(SCHEDULED_POLL_MS)
    /\ schedPc' = "check"
    /\ UNCHANGED <<executions, netUp, tgUp, sent, cancels>>
    /\ UNCHANGED <<startedAt, timeoutAt, seenExecutionIds, signingSentForExecution,
                   execList, execIdx>>
    /\ UNCHANGED waitVars

SchedInit ==
    /\ WorldInit
    /\ executions \in [ExecIds -> {NoExec, St("PENDING", <<>>, FALSE, -1)}]
    /\ WaitIdle
    /\ schedPc = "check"
    /\ startedAt = now
    /\ \E durationSeconds \in DurationSecondsInputs :
          timeoutAt = now + durationSeconds * 1000
    /\ seenExecutionIds = {}
    /\ signingSentForExecution = {}
    /\ execList = <<>>
    /\ execIdx = 0
    /\ PipelineIdle

TrackerStep ==
    \/ (SchedCheck /\ UNCHANGED pipelineVars)
    \/ (SchedList /\ UNCHANGED pipelineVars)
    \/ (SchedIter /\ UNCHANGED pipelineVars)
    \/ (SchedWaitReturned /\ UNCHANGED pipelineVars)
    \/ (SchedSleep /\ UNCHANGED pipelineVars)
    \/ (WaitPollThrows /\ UNCHANGED <<schedVars, pipelineVars>>)
    \/ (WaitPollStatus /\ UNCHANGED <<schedVars, pipelineVars>>)
    \/ (WaitSleep /\ UNCHANGED <<schedVars, pipelineVars>>)

SchedNext ==
    \/ (SchedCheck /\ UNCHANGED pipelineVars)
    \/ (SchedList /\ UNCHANGED pipelineVars)
    \/ (SchedIter /\ UNCHANGED pipelineVars)
    \/ (SchedWaitReturned /\ UNCHANGED pipelineVars)
    \/ (SchedSleep /\ UNCHANGED pipelineVars)
    \/ (WaitPollThrows /\ UNCHANGED <<schedVars, pipelineVars>>)
    \/ (WaitPollStatus /\ UNCHANGED <<schedVars, pipelineVars>>)
    \/ (WaitSleep /\ UNCHANGED <<schedVars, pipelineVars>>)
    \/ (BackendAdvances /\ UNCHANGED <<waitVars, schedVars, pipelineVars>>)
    \/ (BackendStartsExecution /\ UNCHANGED <<waitVars, schedVars, pipelineVars>>)
    \/ (NetworkStep /\ UNCHANGED <<waitVars, schedVars, pipelineVars>>)

SpecSched == SchedInit /\ [][SchedNext]_vars

\* The tracker is a running task: whatever step it is at is eventually taken.
FairSched == SpecSched /\ WF_vars(TrackerStep)

(***************************************************************************)
(* Claims on the tracker of one execution.                                 *)
(***************************************************************************)
SigningPolls == {i \in 1..Len(sent) : sent[i].kind = "signing"}
FirstWaiting(p) ==
    /\ p \in 1..Len(observed)
    /\ observed[p] = "WAITING_FOR_SIGNATURE"
    /\ \A q \in 1..(p - 1) : observed[q] # "WAITING_FOR_SIGNATURE"

\* C1: for every sequence of polled statuses the signing notification is
\* sent at most once, by the first poll that observes WAITING_FOR_SIGNATURE
\* (and that poll does send it); [PENDING, WAITING_FOR_SIGNATURE,
\* WAITING_FOR_SIGNATURE, SUCCESS] sends it once and ends the loop on SUCCESS.
C1_SigningSentOnceOnFirstWaiting ==
    /\ Cardinality(SigningPolls) <= 1
    /\ \A i \in SigningPolls : sent[i].poll # 0 => FirstWaiting(sent[i].poll)
    /\ \A p \in 1..Len(observed) :
          FirstWaiting(p) => \E i \in SigningPolls : sent[i].poll = p
    /\ observed = <<"PENDING", "WAITING_FOR_SIGNATURE", "WAITING_FOR_SIGNATURE", "SUCCESS">>
          => /\ Cardinality(SigningPolls) = 1
             /\ waitPc = "returned"
             /\ waitResult.status = "SUCCESS"

C1_Witness ==
    /\ observed = <<"PENDING", "WAITING_FOR_SIGNATURE", "WAITING_FOR_SIGNATURE", "SUCCESS">>
    /\ Cardinality(SigningPolls) = 1
    /\ waitPc = "returned"

PollSeesTerminal ==
    /\ netUp
    /\ executions[waitExec] # NoExec
    /\ executions[waitExec].status \in Terminal

\* C2: the loop of the single-execution tracker ends only by a poll that
\* observes SUCCESS or FAILED; a poll that throws, a send that throws and any
\* other status lead to the sleep and from there to the next poll; and if from
\* some time on every poll reports SUCCESS or FAILED, the tracker ends.
C2_OnlyTerminalStatusStops ==
    /\ [][(waitPc' = "returned" /\ waitPc # "returned")
             => (waitPc = "poll" /\ PollSeesTerminal /\ waitResult' = executions[waitExec])]_vars
    /\ [][(waitPc = "poll" /\ waitPc' # "poll" /\ ~PollSeesTerminal) => waitPc' = "sleep"]_vars
    /\ [][(waitPc = "sleep" /\ waitPc' # "sleep") => waitPc' = "poll"]_vars
    /\ (<>[]PollSeesTerminal) => <>(waitPc = "returned")

C2_Witness ==
    /\ waitPc = "returned"
    /\ \E p \in 1..Len(observed) : observed[p] = "THROW"
    /\ \E i \in 1..Len(sent) : ~sent[i].delivered
    /\ \E p \in 1..Len(observed) : observed[p] = "PENDING"

(***************************************************************************)
(* Claims on the tracker of a scheduled workflow.                          *)
(***************************************************************************)
NoTerminalExecution ==
    \A e \in ExecIds : executions[e].status \notin Terminal

TimeoutMsgs == {i \in 1..Len(sent) : sent[i].kind = "timeout"}

\* C3: with a window of duration D, if no execution of the watched workflow
\* ever turns terminal (each stays PENDING or WAITING_FOR_SIGNATURE), the
\* tracker stops and emits the timeout notification exactly once, at or after
\* D has elapsed and never before.
C3_TimeoutAfterWindow ==
    /\ [](\A i \in TimeoutMsgs : sent[i].at >= timeoutAt)
    /\ [](Cardinality(TimeoutMsgs) <= 1)
    /\ ([]NoTerminalExecution)
          => <>(schedPc = "done" /\ Cardinality(TimeoutMsgs) = 1)

(***************************************************************************)
(* Block catalog (planner/block-catalog).                                  *)
(***************************************************************************)
PLANNER_BLOCKS ==
    << [id |-> <<"a", "p", "i">>, backendType |-> "API"],
       [id |-> <<"t", "i", "m", "e", "-", "b", "l", "o", "c", "k">>, backendType |-> "TIME_BLOCK"],
       [id |-> <<"t", "e", "l", "e", "g", "r", "a", "m">>, backendType |-> "TELEGRAM"],
       [id |-> <<"s", "l", "a", "c", "k">>, backendType |-> "SLACK"],
       [id |-> <<"m", "a", "i", "l">>, backendType |-> "EMAIL"],
       [id |-> <<"i", "f">>, backendType |-> "IF"],
       [id |-> <<"s", "w", "i", "t", "c", "h">>, backendType |-> "SWITCH"],
       [id |-> <<"w", "a", "l", "l", "e", "t">>, backendType |-> "WALLET"],
       [id |-> <<"u", "n", "i", "s", "w", "a", "p">>, backendType |-> "SWAP"],
       [id |-> <<"o", "n", "e", "i", "n", "c", "h">>, backendType |-> "SWAP"],
       [id |-> <<"l", "i", "f", "i">>, backendType |-> "SWAP"],
       [id |-> <<"r", "e", "l", "a", "y">>, backendType |-> "SWAP"],
       [id |-> <<"a", "a", "v", "e">>, backendType |-> "LENDING"],
       [id |-> <<"c", "o", "m", "p", "o", "u", "n", "d">>, backendType |-> "LENDING"],
       [id |-> <<"c", "h", "a", "i", "n", "l", "i", "n", "k">>, backendType |-> "CHAINLINK_PRICE_ORACLE"],
       [id |-> <<"p", "y", "t", "h">>, backendType |-> "PYTH_PRICE_ORACLE"],
       [id |-> <<"a", "i", "-", "o", "p", "e", "n", "a", "i", "-", "c", "h", "a", "t", "g", "p", "t">>, backendType |-> "LLM_TRANSFORM"],
       [id |-> <<"a", "i", "-", "o", "p", "e", "n", "r", "o", "u", "t", "e", "r", "-", "q", "w", "e", "n", "-", "f", "r", "e", "e">>, backendType |-> "LLM_TRANSFORM"],
       [id |-> <<"a", "i", "-", "o", "p", "e", "n", "r", "o", "u", "t", "e", "r", "-", "g", "l", "m", "-", "f", "r", "e", "e">>, backendType |-> "LLM_TRANSFORM"],
       [id |-> <<"a", "i", "-", "o", "p", "e", "n", "r", "o", "u", "t", "e", "r", "-", "d", "e", "e", "p", "s", "e", "e", "k", "-", "f", "r", "e", "e">>, backendType |-> "LLM_TRANSFORM"] >>

VALID_PLANNER_BLOCK_IDS == {PLANNER_BLOCKS[i].id : i \in DOMAIN PLANNER_BLOCKS}

(***************************************************************************)
(* Planner client: the sanitizer of the planner's response.                *)
(***************************************************************************)
\* Every run of white space and hyphens replaced by one underscore.
RECURSIVE dropSeparators(_)
dropSeparators(s) ==
    IF s # <<>> /\ (IsSpace(Head(s)) \/ Head(s) = "-")
    THEN dropSeparators(Tail(s)) ELSE s

RECURSIVE separatorsToUnderscore(_)
separatorsToUnderscore(s) ==
    IF s = <<>> THEN <<>>
    ELSE IF IsSpace(Head(s)) \/ Head(s) = "-"
         THEN <<"_">> \o separatorsToUnderscore(dropSeparators(s))
         ELSE <<Head(s)>> \o separatorsToUnderscore(Tail(s))

\* Every underscore replaced by a hyphen.
underscoreToHyphen(s) == [i \in DOMAIN s |-> IF s[i] = "_" THEN "-" ELSE s[i]]

aliasMap ==
    { <<<<"s", "w", "a", "p">>, <<"u", "n", "i", "s", "w", "a", "p">>>>,
      <<<<"l", "i", "f", "i", "_", "s", "w", "a", "p">>, <<"l", "i", "f", "i">>>>,
      <<<<"o", "n", "e", "i", "n", "c", "h", "_", "s", "w", "a", "p">>, <<"o", "n", "e", "i", "n", "c", "h">>>>,
      <<<<"u", "n", "i", "s", "w", "a", "p", "_", "s", "w", "a", "p">>, <<"u", "n", "i", "s", "w", "a", "p">>>>,
      <<<<"p", "y", "t", "h", "_", "p", "r", "i", "c", "e", "_", "o", "r", "a", "c", "l", "e">>, <<"p", "y", "t", "h">>>>,
      <<<<"c", "h", "a", "i", "n", "l", "i", "n", "k", "_", "p", "r", "i", "c", "e", "_", "o", "r", "a", "c", "l", "e">>, <<"c", "h", "a", "i", "n", "l", "i", "n", "k">>>>,
      <<<<"l", "l", "m", "_", "t", "r", "a", "n", "s", "f", "o", "r", "m">>, <<"a", "i", "-", "o", "p", "e", "n", "a", "i", "-", "c", "h", "a", "t", "g", "p", "t">>>>,
      <<<<"e", "m", "a", "i", "l">>, <<"m", "a", "i", "l">>>> }

\* The result null of normalizePlannerBlockId: no catalog id is empty.
NoBlockId == <<>>

normalizePlannerBlockId_ExactOnly(rawBlockId) ==
    IF trim(rawBlockId) \in VALID_PLANNER_BLOCK_IDS THEN trim(rawBlockId) ELSE NoBlockId

normalizePlannerBlockId_Unchecked(rawBlockId) == trim(rawBlockId)
normalizePlannerBlockId(rawBlockId) ==
    LET trimmed == trim(rawBlockId)
        normalized == separatorsToUnderscore(toLowerCase(trimmed))
        compact == underscoreToHyphen(normalized)
    IN  IF trimmed = <<>> THEN NoBlockId
        ELSE IF trimmed \in VALID_PLANNER_BLOCK_IDS THEN trimmed
        ELSE IF \E p \in aliasMap : p[1] = normalized /\ p[2] \in VALID_PLANNER_BLOCK_IDS
             THEN (CHOOSE p \in aliasMap : p[1] = normalized)[2]
        ELSE IF compact \in VALID_PLANNER_BLOCK_IDS THEN compact
        ELSE NoBlockId

RECURSIVE stringRecordFrom(_, _)
stringRecordFrom(entries, output) ==
    IF entries = <<>> THEN output
    ELSE LET key == Head(entries).k
             value == Head(entries).v
         IN  IF ~TypeofString(value) THEN stringRecordFrom(Tail(entries), output)
             ELSE LET trimmedKey == trim(key)
                      trimmedValue == trim(value.s)
                  IN  IF trimmedKey = <<>> \/ trimmedValue = <<>>
                      THEN stringRecordFrom(Tail(entries), output)
                      ELSE stringRecordFrom(Tail(entries),
                               Put(output, slice(trimmedKey, 100),
                                   slice(trimmedValue, 200)))

\* The record of string pairs kept from a configHints value; the empty
\* record stands for undefined (an empty output is returned as undefined).
sanitizeStringRecord(input) ==
    IF ~Truthy(input) \/ ~TypeofObject(input) \/ input.t = "array"
    THEN <<>>
    ELSE stringRecordFrom(input.f, <<>>)

\* One candidate step: the step pushed, or <<>> when the loop continues.
sanitizeStep(value) ==
    IF ~Truthy(value) \/ ~TypeofObject(value) THEN <<>>
    ELSE IF ~TypeofString(Get(value, <<"b", "l", "o", "c", "k", "I", "d">>)) THEN <<>>
    ELSE LET blockId == normalizePlannerBlockId(Get(value, <<"b", "l", "o", "c", "k", "I", "d">>).s)
             rawPurpose == Get(value, <<"p", "u", "r", "p", "o", "s", "e">>)
             purpose ==
                 IF TypeofString(rawPurpose) /\ trim(rawPurpose.s) # <<>>
                 THEN slice(trim(rawPurpose.s), 240)
                 ELSE <<"E", "x", "e", "c", "u", "t", "e", " ", "t", "h", "i", "s", " ", "w", "o", "r", "k", "f", "l", "o", "w", " ", "s", "t", "e", "p", ".">>
         IN  IF blockId = NoBlockId THEN <<>>
             ELSE << [blockId |-> blockId,
                      purpose |-> purpose,
                      configHints |-> sanitizeStringRecord(Get(value, <<"c", "o", "n", "f", "i", "g", "H", "i", "n", "t", "s">>))] >>

RECURSIVE stepsFrom(_)
stepsFrom(values) ==
    IF values = <<>> THEN <<>>
    ELSE sanitizeStep(Head(values)) \o stepsFrom(Tail(values))

sanitizeSteps_Uncapped(input) == IF input.t # "array" THEN <<>> ELSE stepsFrom(input.a)
sanitizeSteps(input) ==
    IF input.t # "array" THEN <<>> ELSE slice(stepsFrom(input.a), 20)

sanitizeMissingInput(value) ==
    IF ~Truthy(value) \/ ~TypeofObject(value) THEN <<>>
    ELSE IF ~TypeofString(Get(value, <<"f", "i", "e", "l", "d">>))
            \/ ~TypeofString(Get(value, <<"q", "u", "e", "s", "t", "i", "o", "n">>)) THEN <<>>
    ELSE LET field == trim(Get(value, <<"f", "i", "e", "l", "d">>).s)
             question == trim(Get(value, <<"q", "u", "e", "s", "t", "i", "o", "n">>).s)
         IN  IF field = <<>> \/ question = <<>> THEN <<>>
             ELSE << [field |-> slice(field, 120),
                      question |-> slice(question, 240)] >>

RECURSIVE missingInputsFrom(_)
missingInputsFrom(values) ==
    IF values = <<>> THEN <<>>
    ELSE sanitizeMissingInput(Head(values)) \o missingInputsFrom(Tail(values))

sanitizeMissingInputs(input) ==
    IF input.t # "array" THEN <<>> ELSE slice(missingInputsFrom(input.a), 10)

allowedTypes == {<<"m", "i", "s", "s", "i", "n", "g", "_", "d", "a", "t", "a">>, <<"a", "s", "s", "u", "m", "p", "t", "i", "o", "n">>, <<"r", "i", "s", "k">>, <<"p", "r", "e", "f", "e", "r", "e", "n", "c", "e">>, <<"o", "t", "h", "e", "r">>}

\* One candidate note; field <<>> stands for a note without the property.
sanitizeNote(value) ==
    IF ~Truthy(value) \/ ~TypeofObject(value) THEN <<>>
    ELSE IF ~TypeofString(Get(value, <<"t", "y", "p", "e">>))
            \/ ~TypeofString(Get(value, <<"m", "e", "s", "s", "a", "g", "e">>)) THEN <<>>
    ELSE IF Get(value, <<"t", "y", "p", "e">>).s \notin allowedTypes THEN <<>>
    ELSE LET message == trim(Get(value, <<"m", "e", "s", "s", "a", "g", "e">>).s)
             rawField == Get(value, <<"f", "i", "e", "l", "d">>)
         IN  IF message = <<>> THEN <<>>
             ELSE << [type |-> Get(value, <<"t", "y", "p", "e">>).s,
                      message |-> slice(message, 280),
                      field |-> IF TypeofString(rawField) /\ trim(rawField.s) # <<>>
                                THEN slice(trim(rawField.s), 120)
                                ELSE <<>>] >>

RECURSIVE notesFrom(_)
notesFrom(values) ==
    IF values = <<>> THEN <<>>
    ELSE sanitizeNote(Head(values)) \o notesFrom(Tail(values))

sanitizeNotes(input) ==
    IF input.t # "array" THEN <<>> ELSE slice(notesFrom(input.a), 12)

Threw(message) == [ok |-> FALSE, error |-> message]
Returned(value) == [ok |-> TRUE, value |-> value]

\* The plan returned, or the error thrown.  notes <<>> stands for a plan
\* without the property (notes are spread in only when there are some).
sanitizePlannerResult(input) ==
    IF ~Truthy(input) \/ ~TypeofObject(input)
    THEN Threw("Planner response is not an object")
    ELSE
    LET candidate == input
        heading1 == Get(candidate, <<"h", "e", "a", "d", "i", "n", "g", "1", "_", "w", "o", "r", "k", "f", "l", "o", "w">>)
        heading2 == Get(candidate, <<"h", "e", "a", "d", "i", "n", "g", "2", "_", "n", "o", "t", "e", "s">>)
        workflowSection ==
            IF Truthy(heading1) /\ TypeofObject(heading1) THEN heading1 ELSE candidate
        notesSection ==
            IF Truthy(heading2) /\ TypeofObject(heading2) THEN heading2 ELSE candidate
        rawName == Get(workflowSection, <<"w", "o", "r", "k", "f", "l", "o", "w", "N", "a", "m", "e">>)
        rawDescription == Get(workflowSection, <<"d", "e", "s", "c", "r", "i", "p", "t", "i", "o", "n">>)
        workflowName ==
            IF TypeofString(rawName) /\ trim(rawName.s) # <<>>
            THEN slice(trim(rawName.s), 200)
            ELSE <<"U", "n", "t", "i", "t", "l", "e", "d", " ", "W", "o", "r", "k", "f", "l", "o", "w">>
        description ==
            IF TypeofString(rawDescription) /\ trim(rawDescription.s) # <<>>
            THEN slice(trim(rawDescription.s), 500)
            ELSE <<"G", "e", "n", "e", "r", "a", "t", "e", "d", " ", "w", "o", "r", "k", "f", "l", "o", "w", " ", "p", "l", "a", "n">>
        steps == sanitizeSteps(Get(workflowSection, <<"s", "t", "e", "p", "s">>))
        missingInputs ==
            sanitizeMissingInputs(
                IF Get(notesSection, <<"m", "i", "s", "s", "i", "n", "g", "I", "n", "p", "u", "t", "s">>) # JUndefined
                THEN Get(notesSection, <<"m", "i", "s", "s", "i", "n", "g", "I", "n", "p", "u", "t", "s">>)
                ELSE Get(candidate, <<"m", "i", "s", "s", "i", "n", "g", "I", "n", "p", "u", "t", "s">>))
        notes == sanitizeNotes(Get(notesSection, <<"n", "o", "t", "e", "s">>))
    IN  IF steps = <<>>
        THEN Threw("Planner returned no valid steps")
        ELSE Returned([workflowName |-> workflowName,
                       description |-> description,
                       steps |-> steps,
                       missingInputs |-> missingInputs,
                       notes |-> notes])

\* indexOf and lastIndexOf, counted from 1; 0 when there is no occurrence.
indexOfFrom(s, sub, from) ==
    LET at == {i \in from..(Len(s) - Len(sub) + 1) : SubSeq(s, i, i + Len(sub) - 1) = sub}
    IN  IF at = {} THEN 0 ELSE CHOOSE i \in at : \A j \in at : i <= j

indexOf(s, sub) == indexOfFrom(s, sub, 1)

lastIndexOf(s, sub) ==
    LET at == {i \in 1..(Len(s) - Len(sub) + 1) : SubSeq(s, i, i + Len(sub) - 1) = sub}
    IN  IF at = {} THEN 0 ELSE CHOOSE i \in at : \A j \in at : i >= j

\* The suffix of s from position i on.
from(s, i) == SubSeq(s, i, Len(s))

\* The text between the first code fence that is closed later and its
\* closing fence, less a leading "json" and white space; else the text.
stripCodeFence(value) ==
    LET open == indexOf(value, <<Backtick, Backtick, Backtick>>)
        close == IF open = 0 THEN 0 ELSE indexOfFrom(value, <<Backtick, Backtick, Backtick>>, open + 3)
    IN  IF open = 0 \/ close = 0 THEN trim(value)
        ELSE LET inside == SubSeq(value, open + 3, close - 1)
                 body == IF toLowerCase(slice(inside, 4)) = <<"j", "s", "o", "n">>
                         THEN from(inside, 5) ELSE inside
             IN  trim(body)

extractJsonObject(value) ==
    LET start == indexOf(value, <<"{">>)
        end == lastIndexOf(value, <<"}">>)
    IN  IF start = 0 \/ end = 0 \/ end <= start THEN <<>>
        ELSE trim(SubSeq(value, start, end))

IsTokenChar(c) ==
    \/ \E j \in DOMAIN UpperLetters : UpperLetters[j] = c \/ LowerLetters[j] = c
    \/ c \in {"0", "1", "2", "3", "4", "5", "6", "7", "8", "9", "_", "-"}

RECURSIVE dropTokenChars(_)
dropTokenChars(s) ==
    IF s # <<>> /\ IsTokenChar(Head(s)) THEN dropTokenChars(Tail(s)) ELSE s

\* Every channel mark followed by its name, and every end mark, removed.
\* The first position of s where a channel mark with a name starts, else 0.
firstChannelMark(s) ==
    LET at == {i \in 1..(Len(s) - 11) :
                  /\ SubSeq(s, i, i + 10) = <<"<", "|", "c", "h", "a", "n", "n", "e", "l", "|", ">">>
                  /\ IsTokenChar(s[i + 11])}
    IN  IF at = {} THEN 0 ELSE CHOOSE i \in at : \A j \in at : i <= j

RECURSIVE dropChannelMarks(_)
dropChannelMarks(s) ==
    IF firstChannelMark(s) = 0 THEN s
    ELSE SubSeq(s, 1, firstChannelMark(s) - 1)
             \o dropChannelMarks(dropTokenChars(from(s, firstChannelMark(s) + 11)))

RECURSIVE dropEndMarks(_)
dropEndMarks(s) ==
    IF indexOf(s, <<"<", "|", "e", "n", "d", "|", ">">>) = 0 THEN s
    ELSE SubSeq(s, 1, indexOf(s, <<"<", "|", "e", "n", "d", "|", ">">>) - 1)
             \o dropEndMarks(from(s, indexOf(s, <<"<", "|", "e", "n", "d", "|", ">">>) + 7))

normalizeModelText(value) ==
    LET messageToken == <<"<", "|", "m", "e", "s", "s", "a", "g", "e", "|", ">">>
    IN  IF includes(value, messageToken)
        THEN trim(from(value, indexOf(value, messageToken) + Len(messageToken)))
        ELSE trim(dropEndMarks(dropChannelMarks(value)))

buildClarificationFallback_NoSteps(rawText) == JObj(<<>>)
buildClarificationFallback(rawText) ==
    JObj(<<
      Prop(<<"h", "e", "a", "d", "i", "n", "g", "1", "_", "w", "o", "r", "k", "f", "l", "o", "w">>, JObj(<<
        Prop(<<"w", "o", "r", "k", "f", "l", "o", "w", "N", "a", "m", "e">>, JStr(<<"N", "e", "e", "d", " ", "C", "l", "a", "r", "i", "f", "i", "c", "a", "t", "i", "o", "n">>)),
        Prop(<<"d", "e", "s", "c", "r", "i", "p", "t", "i", "o", "n">>, JStr(<<"C", "o", "u", "l", "d", " ", "n", "o", "t", " ", "d", "e", "r", "i", "v", "e", " ", "a", " ", "v", "a", "l", "i", "d", " ", "w", "o", "r", "k", "f", "l", "o", "w", " ", "J", "S", "O", "N", " ", "f", "r", "o", "m", " ", "m", "o", "d", "e", "l", " ", "o", "u", "t", "p", "u", "t", ";", " ", "a", "s", "k", "i", "n", "g", " ", "f", "o", "r", " ", "c", "l", "a", "r", "i", "f", "i", "c", "a", "t", "i", "o", "n", ".">>)),
        Prop(<<"s", "t", "e", "p", "s">>, JArr(<< JObj(<<
          Prop(<<"b", "l", "o", "c", "k", "I", "d">>, JStr(<<"t", "e", "l", "e", "g", "r", "a", "m">>)),
          Prop(<<"p", "u", "r", "p", "o", "s", "e">>, JStr(<<"A", "s", "k", " ", "u", "s", "e", "r", " ", "f", "o", "r", " ", "c", "l", "a", "r", "i", "f", "i", "c", "a", "t", "i", "o", "n", " ", "b", "e", "f", "o", "r", "e", " ", "b", "u", "i", "l", "d", "i", "n", "g", " ", "w", "o", "r", "k", "f", "l", "o", "w", ".">>)),
          Prop(<<"c", "o", "n", "f", "i", "g", "H", "i", "n", "t", "s">>, JObj(<<
            Prop(<<"m", "e", "s", "s", "a", "g", "e">>, JStr(<<"P", "l", "e", "a", "s", "e", " ", "c", "l", "a", "r", "i", "f", "y", " ", "y", "o", "u", "r", " ", "r", "e", "q", "u", "e", "s", "t", " ", "a", "n", "d", " ", "r", "e", "q", "u", "i", "r", "e", "d", " ", "d", "e", "t", "a", "i", "l", "s", ".">>)) >>)) >>) >>)) >>)),
      Prop(<<"h", "e", "a", "d", "i", "n", "g", "2", "_", "n", "o", "t", "e", "s">>, JObj(<<
        Prop(<<"m", "i", "s", "s", "i", "n", "g", "I", "n", "p", "u", "t", "s">>, JArr(<< JObj(<<
          Prop(<<"f", "i", "e", "l", "d">>, JStr(<<"i", "n", "t", "e", "n", "t">>)),
          Prop(<<"q", "u", "e", "s", "t", "i", "o", "n">>, JStr(<<"P", "l", "e", "a", "s", "e", " ", "c", "l", "a", "r", "i", "f", "y", " ", "w", "h", "a", "t", " ", "y", "o", "u", " ", "w", "a", "n", "t", " ", "t", "o", " ", "a", "c", "h", "i", "e", "v", "e", " ", "(", "t", "r", "i", "g", "g", "e", "r", ",", " ", "a", "c", "t", "i", "o", "n", ",", " ", "c", "o", "n", "s", "t", "r", "a", "i", "n", "t", "s", ")", ".">>)) >>) >>)),
        Prop(<<"n", "o", "t", "e", "s">>, JArr(<< JObj(<<
          Prop(<<"t", "y", "p", "e">>, JStr(<<"o", "t", "h", "e", "r">>)),
          Prop(<<"m", "e", "s", "s", "a", "g", "e">>, JStr(<<"R", "a", "w", " ", "m", "o", "d", "e", "l", " ", "o", "u", "t", "p", "u", "t", " ", "(", "t", "r", "i", "m", "m", "e", "d", ")", ":", " ">> \o slice(rawText, 220))) >>) >>)) >>)) >>)

\* JSON.parse on the texts the responses of this model contain; every other
\* text they lead to is not JSON, and safeJsonParse returns null for it.
JsonTexts ==
    { <<<<"4", "2">>, JNum(42)>>,
      <<<<"0">>, JNum(0)>>,
      <<<<"n", "u", "l", "l">>, JNull>>,
      <<<<"{", "}">>, JObj(<<>>)>>,
      <<<<"{", "\"", "s", "u", "c", "c", "e", "s", "s", "\"", ":", "t", "r", "u", "e", ",", "\"", "d", "a", "t", "a", "\"", ":", "{", "\"", "i", "d", "\"", ":", "\"", "w", "f", "-", "1", "\"", "}", "}">>,
        JObj(<<Prop(<<"s", "u", "c", "c", "e", "s", "s">>, JBool(TRUE)),
               Prop(<<"d", "a", "t", "a">>, JObj(<<Prop(<<"i", "d">>, JStr(<<"w", "f", "-", "1">>))>>))>>)>>,
      <<<<"{", "\"", "s", "u", "c", "c", "e", "s", "s", "\"", ":", "f", "a", "l", "s", "e", "}">>, JObj(<<Prop(<<"s", "u", "c", "c", "e", "s", "s">>, JBool(FALSE))>>)>>,
      <<<<"{", "\"", "s", "u", "c", "c", "e", "s", "s", "\"", ":", "t", "r", "u", "e", ",", "\"", "d", "a", "t", "a", "\"", ":", "{", "\"", "c", "o", "n", "t", "e", "x", "t", "\"", ":", "{", "\"", "u", "s", "e", "r", "A", "d", "d", "r", "e", "s", "s", "\"", ":", "\"", "0", "x", "a", "b", "c", "\"", ",", "\"", "a", "p", "i", "K", "e", "y", "\"", ":", "\"", "k", "\"", "}", "}", "}">>,
        JObj(<<Prop(<<"s", "u", "c", "c", "e", "s", "s">>, JBool(TRUE)),
               Prop(<<"d", "a", "t", "a">>, JObj(<<Prop(<<"c", "o", "n", "t", "e", "x", "t">>,
                   JObj(<<Prop(<<"u", "s", "e", "r", "A", "d", "d", "r", "e", "s", "s">>, JStr(<<"0", "x", "a", "b", "c">>)),
                          Prop(<<"a", "p", "i", "K", "e", "y">>, JStr(<<"k">>))>>))>>))>>)>>,
      <<<<"{", "\"", "s", "u", "c", "c", "e", "s", "s", "\"", ":", "t", "r", "u", "e", ",", "\"", "d", "a", "t", "a", "\"", ":", "{", "\"", "p", "r", "e", "f", "e", "r", "r", "e", "d", "C", "h", "a", "i", "n", "s", "\"", ":", "[", "\"", "B", "A", "S", "E", "\"", "]", "}", "}">>,
        JObj(<<Prop(<<"s", "u", "c", "c", "e", "s", "s">>, JBool(TRUE)),
               Prop(<<"d", "a", "t", "a">>, JObj(<<Prop(<<"p", "r", "e", "f", "e", "r", "r", "e", "d", "C", "h", "a", "i", "n", "s">>,
                   JArr(<<JStr(<<"B", "A", "S", "E">>)>>))>>))>>)>>,
      <<<<"{", "\"", "s", "u", "c", "c", "e", "s", "s", "\"", ":", "t", "r", "u", "e", ",", "\"", "d", "a", "t", "a", "\"", ":", "\"", "n", "o", "n", "e", "\"", "}">>,
        JObj(<<Prop(<<"s", "u", "c", "c", "e", "s", "s">>, JBool(TRUE)),
               Prop(<<"d", "a", "t", "a">>, JStr(<<"n", "o", "n", "e">>))>>)>>,
      <<<<"{", "\"", "s", "t", "e", "p", "s", "\"", ":", "[", "]", "}">>, JObj(<<Prop(<<"s", "t", "e", "p", "s">>, JArr(<<>>))>>)>>,
      <<<<"{", "\"", "s", "t", "e", "p", "s", "\"", ":", "[", "{", "\"", "b", "l", "o", "c", "k", "I", "d", "\"", ":", "\"", "t", "e", "l", "e", "g", "r", "a", "m", "\"", "}", "]", "}">>,
        JObj(<<Prop(<<"s", "t", "e", "p", "s">>, JArr(<<JObj(<<Prop(<<"b", "l", "o", "c", "k", "I", "d">>, JStr(<<"t", "e", "l", "e", "g", "r", "a", "m">>))>>)>>))>>)>> }

safeJsonParse(value) ==
    IF \E p \in JsonTexts : p[1] = value
    THEN (CHOOSE p \in JsonTexts : p[1] = value)[2]
    ELSE JNull

\* a ?? b
Coalesce(a, b) == IF a = JNull \/ a = JUndefined THEN b ELSE a

parsePlannerPayload(data) ==
    IF Truthy(data.json) /\ TypeofObject(data.json) THEN Returned(data.json)
    ELSE IF ~Truthy(data.text) \/ trim(data.text.s) = <<>>
         THEN Threw("Planner returned empty text")
    ELSE LET plain == normalizeModelText(stripCodeFence(data.text.s))
             parsed == Coalesce(safeJsonParse(plain),
                                safeJsonParse(extractJsonObject(plain)))
         IN  IF ~Truthy(parsed) THEN Returned(buildClarificationFallback(plain))
             ELSE Returned(parsed)

\* A returned plan as the value it is when it is passed to the sanitizer.
StepAsValue(step) ==
    JObj(<<Prop(<<"b", "l", "o", "c", "k", "I", "d">>, JStr(step.blockId)), Prop(<<"p", "u", "r", "p", "o", "s", "e">>, JStr(step.purpose))>>
         \o (IF step.configHints = <<>> THEN <<>>
             ELSE <<Prop(<<"c", "o", "n", "f", "i", "g", "H", "i", "n", "t", "s">>,
                         JObj([i \in DOMAIN step.configHints |->
                                  Prop(step.configHints[i].k, JStr(step.configHints[i].v))]))>>))

MissingInputAsValue(item) ==
    JObj(<<Prop(<<"f", "i", "e", "l", "d">>, JStr(item.field)), Prop(<<"q", "u", "e", "s", "t", "i", "o", "n">>, JStr(item.question))>>)

NoteAsValue(note) ==
    JObj(<<Prop(<<"t", "y", "p", "e">>, JStr(note.type)), Prop(<<"m", "e", "s", "s", "a", "g", "e">>, JStr(note.message))>>
         \o (IF note.field = <<>> THEN <<>> ELSE <<Prop(<<"f", "i", "e", "l", "d">>, JStr(note.field))>>))

PlanAsValue(plan) ==
    JObj(<<Prop(<<"w", "o", "r", "k", "f", "l", "o", "w", "N", "a", "m", "e">>, JStr(plan.workflowName)),
           Prop(<<"d", "e", "s", "c", "r", "i", "p", "t", "i", "o", "n">>, JStr(plan.description)),
           Prop(<<"s", "t", "e", "p", "s">>, JArr([i \in DOMAIN plan.steps |-> StepAsValue(plan.steps[i])])),
           Prop(<<"m", "i", "s", "s", "i", "n", "g", "I", "n", "p", "u", "t", "s">>,
                JArr([i \in DOMAIN plan.missingInputs |->
                         MissingInputAsValue(plan.missingInputs[i])]))>>
         \o (IF plan.notes = <<>> THEN <<>>
             ELSE <<Prop(<<"n", "o", "t", "e", "s">>, JArr([i \in DOMAIN plan.notes |-> NoteAsValue(plan.notes[i])]))>>))

(***************************************************************************)
(* The responses the sanitizer is run on.                                  *)
(***************************************************************************)
\* Longest array of candidate steps taken element by element.
MaxRawSteps == 2

\* All sequences over S of length at most n.
SeqsUpTo(S, n) == UNION {[1..k -> S] : k \in 0..n}

TelegramStepValue ==
    JObj(<<Prop(<<"b", "l", "o", "c", "k", "I", "d">>, JStr(<<"t", "e", "l", "e", "g", "r", "a", "m">>)),
           Prop(<<"p", "u", "r", "p", "o", "s", "e">>, JStr(<<" ", "N", "o", "t", "i", "f", "y", " ", "m", "e", " ">>)),
           Prop(<<"c", "o", "n", "f", "i", "g", "H", "i", "n", "t", "s">>, JObj(<<Prop(<<" ", "m", "e", "s", "s", "a", "g", "e", " ">>, JStr(<<" ", "E", "T", "H", " ", "i", "s", " ", "d", "o", "w", "n", " ">>)),
                                        Prop(<<"r", "e", "t", "r", "i", "e", "s">>, JNum(3)),
                                        Prop(<<"c", "h", "a", "t", "I", "d">>, JStr(<<" ", " ">>))>>))>>)

\* purpose, hint key and hint value each longer than the limit, with white
\* space where the limit falls.
LongStepValue ==
    JObj(<<Prop(<<"b", "l", "o", "c", "k", "I", "d">>, JStr(<<"u", "n", "i", "s", "w", "a", "p">>)),
           Prop(<<"p", "u", "r", "p", "o", "s", "e">>, JStr(Rep("a", 239) \o <<" ", "b">>)),
           Prop(<<"c", "o", "n", "f", "i", "g", "H", "i", "n", "t", "s">>, JObj(<<Prop(Rep("k", 99) \o <<" ", "z">>, JStr(Rep("v", 199) \o <<" ", "w">>)),
                                        Prop(<<"e", "x", "t", "r", "a">>, JArr(<<>>))>>))>>)

RawStepValues ==
    { JNull,
      JStr(<<"t", "e", "l", "e", "g", "r", "a", "m">>),
      TelegramStepValue,
      JObj(<<Prop(<<"b", "l", "o", "c", "k", "I", "d">>, JStr(<<" ", "C", "h", "a", "i", "n", "l", "i", "n", "k", " ", "P", "r", "i", "c", "e", "-", "O", "r", "a", "c", "l", "e", " ">>))>>),
      JObj(<<Prop(<<"b", "l", "o", "c", "k", "I", "d">>, JStr(<<"T", "i", "m", "e", " ", "B", "l", "o", "c", "k">>)),
             Prop(<<"c", "o", "n", "f", "i", "g", "H", "i", "n", "t", "s">>, JObj(<<Prop(<<"i", "n", "t", "e", "r", "v", "a", "l", "S", "e", "c", "o", "n", "d", "s">>, JStr(<<"6", "0">>))>>))>>),
      JObj(<<Prop(<<"b", "l", "o", "c", "k", "I", "d">>, JStr(<<"t", "e", "l", "e", "p", "o", "r", "t">>)), Prop(<<"p", "u", "r", "p", "o", "s", "e">>, JStr(<<"x">>))>>),
      JObj(<<Prop(<<"b", "l", "o", "c", "k", "I", "d">>, JNum(7))>>),
      JObj(<<Prop(<<"b", "l", "o", "c", "k", "I", "d">>, JStr(<<"S", "w", "a", "p">>))>>),
      JObj(<<Prop(<<"b", "l", "o", "c", "k", "I", "d">>, JStr(<<"E", "-", "M", "a", "i", "l">>))>>),
      LongStepValue }

RawSteps ==
    {JUndefined, JStr(<<"t", "e", "l", "e", "g", "r", "a", "m">>)}
    \cup {JArr(a) : a \in SeqsUpTo(RawStepValues, MaxRawSteps)}
    \cup {JArr([i \in 1..22 |-> IF i = 2 THEN JNull ELSE TelegramStepValue])}

RawNames ==
    {JUndefined, JNum(7), JStr(<<" ", " ">>), JStr(<<" ", "B", "u", "y", " ", "E", "T", "H", " ">>), JStr(Rep("n", 199) \o <<" ", "x">>)}

RawDescriptions == {JUndefined, JStr(Rep("d", 499) \o <<" ", "x">>)}

MissingInputValue(field, question) ==
    JObj(<<Prop(<<"f", "i", "e", "l", "d">>, JStr(field)), Prop(<<"q", "u", "e", "s", "t", "i", "o", "n">>, JStr(question))>>)

RawMissingInputs ==
    { JUndefined,
      JArr(<<>>),
      JArr(<<MissingInputValue(<<" ", "a", "m", "o", "u", "n", "t", " ">>, <<"H", "o", "w", " ", "m", "u", "c", "h", "?">>), JNull,
             MissingInputValue(<<" ">>, <<"q">>),
             MissingInputValue(Rep("f", 119) \o <<" ", "x">>, Rep("q", 239) \o <<" ", "x">>)>>),
      JArr([i \in 1..11 |-> MissingInputValue(<<"a", "m", "o", "u", "n", "t">>, <<"H", "o", "w", " ", "m", "u", "c", "h", "?">>)]) }

NoteValue(type, message, field) ==
    JObj(<<Prop(<<"t", "y", "p", "e">>, JStr(type)), Prop(<<"m", "e", "s", "s", "a", "g", "e">>, JStr(message)),
           Prop(<<"f", "i", "e", "l", "d">>, field)>>)

RawNotes ==
    { JUndefined,
      JArr(<<NoteValue(<<"r", "i", "s", "k">>, <<" ", "s", "l", "i", "p", "p", "a", "g", "e", " ">>, JStr(<<" ", "a", "m", "o", "u", "n", "t", " ">>)),
             NoteValue(<<"w", "a", "r", "n", "i", "n", "g">>, <<"m">>, JUndefined),
             NoteValue(<<"o", "t", "h", "e", "r">>, Rep("m", 279) \o <<" ", "x">>, JStr(Rep("f", 119) \o <<" ", "x">>)),
             JStr(<<"n", "o", "t", "e">>)>>),
      JArr([i \in 1..13 |-> NoteValue(<<"a", "s", "s", "u", "m", "p", "t", "i", "o", "n">>, <<"m">>, JUndefined)]) }

\* The response in the flat shape, and under the two headings.
FlatPayload(name, description, steps, missing, notes) ==
    JObj(<<Prop(<<"w", "o", "r", "k", "f", "l", "o", "w", "N", "a", "m", "e">>, name), Prop(<<"d", "e", "s", "c", "r", "i", "p", "t", "i", "o", "n">>, description),
           Prop(<<"s", "t", "e", "p", "s">>, steps), Prop(<<"m", "i", "s", "s", "i", "n", "g", "I", "n", "p", "u", "t", "s">>, missing),
           Prop(<<"n", "o", "t", "e", "s">>, notes), Prop(<<"c", "o", "n", "f", "i", "d", "e", "n", "c", "e">>, JNum(1))>>)

HeadedPayload(name, description, steps, missing, notes) ==
    JObj(<<Prop(<<"h", "e", "a", "d", "i", "n", "g", "1", "_", "w", "o", "r", "k", "f", "l", "o", "w">>,
                JObj(<<Prop(<<"w", "o", "r", "k", "f", "l", "o", "w", "N", "a", "m", "e">>, name), Prop(<<"d", "e", "s", "c", "r", "i", "p", "t", "i", "o", "n">>, description),
                       Prop(<<"s", "t", "e", "p", "s">>, steps)>>)),
           Prop(<<"h", "e", "a", "d", "i", "n", "g", "2", "_", "n", "o", "t", "e", "s">>,
                JObj(<<Prop(<<"m", "i", "s", "s", "i", "n", "g", "I", "n", "p", "u", "t", "s">>, missing), Prop(<<"n", "o", "t", "e", "s">>, notes)>>))>>)

\* Two arrays of candidate steps that leave a usable step.
UsableRawSteps ==
    {JArr(<<TelegramStepValue>>), JArr(<<JNull, LongStepValue, TelegramStepValue>>)}

\* Every array of candidate steps under two names, and every combination of
\* the other fields over steps that leave a plan.
RawPayloads ==
    {FlatPayload(n, JUndefined, s, JUndefined, JUndefined) :
        n \in {JNum(7), JStr(<<" ", "B", "u", "y", " ">>)}, s \in RawSteps}
    \cup {FlatPayload(n, d, s, m, o) :
             n \in RawNames, d \in RawDescriptions, s \in UsableRawSteps,
             m \in RawMissingInputs, o \in RawNotes}
    \cup {HeadedPayload(n, JUndefined, s, m, JUndefined) :
             n \in RawNames, s \in UsableRawSteps \cup {JArr(<<>>)},
             m \in RawMissingInputs}
    \cup {HeadedPayload(JUndefined, JUndefined, s, JUndefined, JUndefined) :
             s \in RawSteps}
    \cup {JArr(<<>>)}

RawTexts ==
    { <<>>,
      <<" ", " ", " ">>,
      <<"4", "2">>,
      <<"0">>,
      <<"n", "u", "l", "l">>,
      <<"I", " ", "c", "a", "n", "n", "o", "t", " ", "h", "e", "l", "p", " ", "{", "w", "i", "t", "h", " ", "t", "h", "a", "t", "}">>,
      <<"S", "u", "r", "e", ":", " ", "{", "\"", "s", "t", "e", "p", "s", "\"", ":", "[", "]", "}", " ", "d", "o", "n", "e">>,
      <<Backtick, Backtick, Backtick, "j", "s", "o", "n", " ", "{", "\"", "s", "t", "e", "p", "s", "\"", ":", "[", "{", "\"", "b", "l", "o", "c", "k", "I", "d", "\"", ":", "\"", "t", "e", "l", "e", "g", "r", "a", "m", "\"", "}", "]", "}", " ", Backtick, Backtick, Backtick>>,
      <<"<", "|", "c", "h", "a", "n", "n", "e", "l", "|", ">", "f", "i", "n", "a", "l", "<", "|", "m", "e", "s", "s", "a", "g", "e", "|", ">", "{", "}">>,
      <<"<", "|", "c", "h", "a", "n", "n", "e", "l", "|", ">", "f", "i", "n", "a", "l", " ", "{", "}", "<", "|", "e", "n", "d", "|", ">">>,
      <<"<", "|", "c", "h", "a", "n", "n", "e", "l", "|", ">", "f", "i", "n", "a", "l", " ", "S", "o", "r", "r", "y", ",", " ", "n", "o", ".">>,
      Rep("w", 219) \o <<" ", "z", "z">> }

LlmResponses ==
    {[json |-> v, text |-> JUndefined] : v \in RawPayloads}
    \cup {[json |-> j, text |-> JStr(t)] : j \in {JUndefined, JStr(<<"p", "l", "a", "n">>)}, t \in RawTexts}
    \cup {[json |-> JNull, text |-> JUndefined]}

(***************************************************************************)
(* One attempt of generateWorkflowPlan on a response: parse, sanitize;     *)
(* then the returned plan is sanitized once more.                          *)
(***************************************************************************)
MonitorOff ==
    /\ now = 0
    /\ executions = [e \in ExecIds |-> NoExec]
    /\ netUp = TRUE
    /\ tgUp = TRUE
    /\ sent = <<>>
    /\ cancels = <<>>
    /\ WaitIdle
    /\ SchedOff

ParsePayload ==
    /\ sanPc = "parse"
    /\ LET r == parsePlannerPayload(llmData)
       IN  IF r.ok
           THEN /\ parsedPayload' = r.value
                /\ sanPc' = "sanitize"
                /\ UNCHANGED sanResult
           ELSE /\ sanResult' = r
                /\ sanPc' = "done"
                /\ UNCHANGED parsedPayload
    /\ UNCHANGED <<llmData, sanAgain>>

Sanitize ==
    /\ sanPc = "sanitize"
    /\ sanResult' = sanitizePlannerResult(parsedPayload)
    /\ sanPc' = IF sanResult'.ok THEN "again" ELSE "done"
    /\ UNCHANGED <<llmData, parsedPayload, sanAgain>>

SanitizeAgain ==
    /\ sanPc = "again"
    /\ sanAgain' = sanitizePlannerResult(PlanAsValue(sanResult.value))
    /\ sanPc' = "done"
    /\ UNCHANGED <<llmData, parsedPayload, sanResult>>

SanitizeInit ==
    /\ MonitorOff
    /\ ClientsOff
    /\ CmpOff
    /\ SvcOff
    /\ sanPc = "parse"
    /\ llmData \in LlmResponses
    /\ parsedPayload = JUndefined
    /\ sanResult = JUndefined
    /\ sanAgain = JUndefined

SanitizeNext ==
    \/ (ParsePayload /\ UNCHANGED <<monitorVars, clientVars, cmpVars, svcVars>>)
    \/ (Sanitize /\ UNCHANGED <<monitorVars, clientVars, cmpVars, svcVars>>)
    \/ (SanitizeAgain /\ UNCHANGED <<monitorVars, clientVars, cmpVars, svcVars>>)

SpecSanitize == SanitizeInit /\ [][SanitizeNext]_vars

(***************************************************************************)
(* Claims on the sanitizer.                                                *)
(***************************************************************************)
\* A string of 1..max characters that does not start with white space.
Clamped(s, max) == Len(s) \in 1..max /\ ~IsSpace(s[1])

ValidStep(step) ==
    /\ step.blockId \in VALID_PLANNER_BLOCK_IDS
    /\ Clamped(step.purpose, 240)
    /\ \A i \in DOMAIN step.configHints :
          /\ Clamped(step.configHints[i].k, 100)
          /\ Clamped(step.configHints[i].v, 200)
          /\ \A j \in DOMAIN step.configHints :
                step.configHints[i].k = step.configHints[j].k => i = j

ValidPlan(plan) ==
    /\ Clamped(plan.workflowName, 200)
    /\ Clamped(plan.description, 500)
    /\ Len(plan.steps) \in 1..20
    /\ \A i \in DOMAIN plan.steps : ValidStep(plan.steps[i])
    /\ Len(plan.missingInputs) <= 10
    /\ \A i \in DOMAIN plan.missingInputs :
          /\ Clamped(plan.missingInputs[i].field, 120)
          /\ Clamped(plan.missingInputs[i].question, 240)
    /\ Len(plan.notes) <= 12
    /\ \A i \in DOMAIN plan.notes :
          /\ plan.notes[i].type \in allowedTypes
          /\ Clamped(plan.notes[i].message, 280)

\* The raw block ids of the responses above that name a catalog block.
ResolvableRawIds ==
    {<<"t", "e", "l", "e", "g", "r", "a", "m">>, <<"u", "n", "i", "s", "w", "a", "p">>, <<" ", "C", "h", "a", "i", "n", "l", "i", "n", "k", " ", "P", "r", "i", "c", "e", "-", "O", "r", "a", "c", "l", "e", " ">>, <<"T", "i", "m", "e", " ", "B", "l", "o", "c", "k">>,
     <<"S", "w", "a", "p">>}

IsObjectValue(v) == v.t \in {"object", "array"}

\* The candidate steps of a payload that the sanitizer can use.
UsableSteps(payload) ==
    LET h == Get(payload, <<"h", "e", "a", "d", "i", "n", "g", "1", "_", "w", "o", "r", "k", "f", "l", "o", "w">>)
        section == IF IsObjectValue(h) THEN h ELSE payload
        steps == Get(section, <<"s", "t", "e", "p", "s">>)
    IN  IF steps.t # "array" THEN {}
        ELSE {i \in DOMAIN steps.a :
                 /\ steps.a[i].t = "object"
                 /\ Get(steps.a[i], <<"b", "l", "o", "c", "k", "I", "d">>).t = "string"
                 /\ Get(steps.a[i], <<"b", "l", "o", "c", "k", "I", "d">>).s \in ResolvableRawIds}

\* C7 as stated: whatever the planner's output, the result is a valid plan
\* with at least one step (or the clarification fallback, itself such a
\* plan); the sanitizer never fails with an error.
C7_SanitizerNeverFails ==
    sanPc = "done" => sanResult.ok /\ ValidPlan(sanResult.value)

\* C7 as amended: the result is a valid plan with at least one step, except
\* that the sanitizer fails when the response has no object and no text,
\* when the payload is not an object, or when no usable step remains; it
\* fails in these cases only, and in each with that case's error.
C7_FailsOnlyWithoutUsableSteps ==
    sanPc = "done" =>
        IF sanResult.ok
        THEN /\ ValidPlan(sanResult.value)
             /\ IsObjectValue(parsedPayload)
             /\ UsableSteps(parsedPayload) # {}
        ELSE \/ /\ sanResult.error = "Planner returned empty text"
                /\ ~IsObjectValue(llmData.json)
                /\ (llmData.text = JUndefined \/ trim(llmData.text.s) = <<>>)
             \/ /\ sanResult.error = "Planner response is not an object"
                /\ ~IsObjectValue(parsedPayload)
             \/ /\ sanResult.error = "Planner returned no valid steps"
                /\ IsObjectValue(parsedPayload)
                /\ UsableSteps(parsedPayload) = {}

\* A response with a wrong-typed name, an unknown block and an over-long
\* purpose has been sanitized into a plan of the one usable step.
C7_Witness ==
    /\ sanPc = "done"
    /\ sanResult.ok
    /\ Get(parsedPayload, <<"w", "o", "r", "k", "f", "l", "o", "w", "N", "a", "m", "e">>) = JNum(7)
    /\ Get(parsedPayload, <<"s", "t", "e", "p", "s">>).t = "array"
    /\ Len(Get(parsedPayload, <<"s", "t", "e", "p", "s">>).a) = 2
    /\ Len(sanResult.value.steps) = 1
    /\ Len(sanResult.value.steps[1].purpose) = 240

\* C8: sanitizing a returned plan again returns the identical plan.
C8_SanitizeIdempotent ==
    (sanPc = "done" /\ sanResult.ok) => sanAgain = sanResult

(***************************************************************************)
(* Workflow compiler (services/workflow-compiler).                         *)
(***************************************************************************)
DEFAULT_INTERVAL_SECONDS == 300
DEFAULT_DURATION_SECONDS == 86400

\* const name = value; body  --  the value is computed once.
With(value, Body(_)) == Body(value)

\* String.prototype.toUpperCase
toUpperCase(s) ==
    [i \in DOMAIN s |->
        IF \E j \in DOMAIN LowerLetters : LowerLetters[j] = s[i]
        THEN UpperLetters[CHOOSE j \in DOMAIN LowerLetters : LowerLetters[j] = s[i]]
        ELSE s[i]]

DigitChars == <<"0", "1", "2", "3", "4", "5", "6", "7", "8", "9">>

IsDigit(c) == \E j \in DOMAIN DigitChars : DigitChars[j] = c

DigitValue(c) == (CHOOSE j \in DOMAIN DigitChars : DigitChars[j] = c) - 1

RECURSIVE DecimalValue(_)
DecimalValue(s) ==
    IF s = <<>> THEN 0
    ELSE 10 * DecimalValue(SubSeq(s, 1, Len(s) - 1)) + DigitValue(s[Len(s)])

\* The decimal digits of a natural number.
RECURSIVE DecimalDigits(_)
DecimalDigits(n) ==
    IF n < 10 THEN <<DigitChars[n + 1]>>
    ELSE DecimalDigits(n \div 10) \o <<DigitChars[(n % 10) + 1]>>

\* The n-th identifier randomUUID returns: no two calls return the same.
randomUUID(n) == <<"u", "u", "i", "d", "-">> \o DecimalDigits(n)

\* Number(text) for texts of white space, sign, digits and a decimal point:
\* an integer, a finite number that is no integer, or NaN.
NaN == [kind |-> "NaN"]
Fractional == [kind |-> "fraction"]
Integer(n) == [kind |-> "integer", n |-> n]

AllDigits(s) == \A i \in DOMAIN s : IsDigit(s[i])

NumberOfParts(sign, whole, frac) ==
    IF ~AllDigits(whole) \/ ~AllDigits(frac) \/ (whole = <<>> /\ frac = <<>>) THEN NaN
    ELSE IF \E i \in DOMAIN frac : frac[i] # "0" THEN Fractional
    ELSE Integer(sign * DecimalValue(whole))

NumberOfUnsigned(sign, body) ==
    With(indexOf(body, <<".">>), LAMBDA dot :
        IF dot = 0 THEN NumberOfParts(sign, body, <<>>)
        ELSE NumberOfParts(sign, SubSeq(body, 1, dot - 1), from(body, dot + 1)))

StringToNumber(text) ==
    With(trim(text), LAMBDA t :
        IF t = <<>> THEN Integer(0)
        ELSE IF Head(t) = "-" THEN NumberOfUnsigned(0 - 1, Tail(t))
        ELSE IF Head(t) = "+" THEN NumberOfUnsigned(1, Tail(t))
        ELSE NumberOfUnsigned(1, t))

\* typeof rawValue === 'number' ? rawValue : typeof rawValue === 'string' ? Number(rawValue) : NaN
AsNumber(rawValue) ==
    IF rawValue.t = "number" THEN Integer(rawValue.n)
    ELSE IF rawValue.t = "string" THEN StringToNumber(rawValue.s)
    ELSE NaN

\* Number.isInteger(asNumber) && asNumber > 0
IsPositiveInteger(asNumber) == asNumber.kind = "integer" /\ asNumber.n > 0

\* The value returned and the warnings after the call; rawValue is a hint
\* (a string) or undefined.
toPositiveInt_AlwaysDefault(rawValue, defaultValue, field, warnings) ==
    [value |-> defaultValue, warnings |-> warnings]
toPositiveInt(rawValue, defaultValue, field, warnings) ==
    With(AsNumber(rawValue), LAMBDA asNumber :
        IF IsPositiveInteger(asNumber)
        THEN [value |-> asNumber.n, warnings |-> warnings]
        ELSE [value |-> defaultValue,
              warnings |-> IF rawValue # JUndefined
                           THEN Append(warnings, [invalid |-> field, raw |-> rawValue])
                           ELSE warnings])

\* step.configHints as the object the compiler reads; step.configHints ?? {}.
HintsOf(step) ==
    JObj([i \in DOMAIN step.configHints |->
             Prop(step.configHints[i].k, JStr(step.configHints[i].v))])

\* String(v ?? '') for a hint
StringOrEmpty(v) == IF v.t = "string" THEN v.s ELSE <<>>

\* cronExpression: the trimmed hint, or null.
cronExpressionOf(hints) ==
    IF Get(hints, <<"c", "r", "o", "n", "E", "x", "p", "r", "e", "s", "s", "i", "o", "n">>).t = "string"
       /\ trim(Get(hints, <<"c", "r", "o", "n", "E", "x", "p", "r", "e", "s", "s", "i", "o", "n">>).s) # <<>>
    THEN JStr(trim(Get(hints, <<"c", "r", "o", "n", "E", "x", "p", "r", "e", "s", "s", "i", "o", "n">>).s))
    ELSE JNull

recurrenceOf(hints, intervalSeconds) ==
    IF \/ toUpperCase(StringOrEmpty(Get(hints, <<"r", "e", "c", "u", "r", "r", "e", "n", "c", "e", "T", "y", "p", "e">>))) = <<"C", "R", "O", "N">>
       \/ cronExpressionOf(hints) # JNull
    THEN JObj(<<Prop(<<"t", "y", "p", "e">>, JStr(<<"C", "R", "O", "N">>)),
                Prop(<<"c", "r", "o", "n", "E", "x", "p", "r", "e", "s", "s", "i", "o", "n">>,
                     Coalesce(cronExpressionOf(hints), JStr(<<"*", "/", "5", " ", "*", " ", "*", " ", "*", " ", "*">>)))>>)
    ELSE JObj(<<Prop(<<"t", "y", "p", "e">>, JStr(<<"I", "N", "T", "E", "R", "V", "A", "L">>)),
                Prop(<<"i", "n", "t", "e", "r", "v", "a", "l", "S", "e", "c", "o", "n", "d", "s">>, JNum(intervalSeconds))>>)

extractScheduleFromTimeBlockStep(step, warnings) ==
    With(HintsOf(step), LAMBDA hints :
    With(toPositiveInt(Get(hints, <<"i", "n", "t", "e", "r", "v", "a", "l", "S", "e", "c", "o", "n", "d", "s">>), DEFAULT_INTERVAL_SECONDS,
                       "time-block intervalSeconds", warnings), LAMBDA interval :
    With(toPositiveInt(Get(hints, <<"d", "u", "r", "a", "t", "i", "o", "n", "S", "e", "c", "o", "n", "d", "s">>), DEFAULT_DURATION_SECONDS,
                       "time-block durationSeconds", interval.warnings), LAMBDA duration :
        [intervalSeconds |-> interval.value,
         durationSeconds |-> duration.value,
         recurrence |-> recurrenceOf(hints, interval.value),
         stopConditions |-> JObj(<<Prop(<<"d", "u", "r", "a", "t", "i", "o", "n", "S", "e", "c", "o", "n", "d", "s">>, JNum(duration.value))>>),
         warnings |-> duration.warnings])))

START_NODE_TYPE == "START"
TIME_BLOCK_NODE_TYPE == "TIME_BLOCK"
DEFAULT_ORACLE_CHAIN == <<"A", "R", "B", "I", "T", "R", "U", "M">>

CHAINLINK_ETH_USD_AGGREGATORS ==
    { <<<<"A", "R", "B", "I", "T", "R", "U", "M">>, <<"0", "x", "6", "3", "9", "F", "e", "6", "a", "b", "5", "5", "C", "9", "2", "1", "f", "7", "4", "e", "7", "f", "a", "c", "1", "e", "e", "9", "6", "0", "C", "0", "B", "6", "2", "9", "3", "b", "a", "6", "1", "2">>>>,
      <<<<"E", "T", "H", "E", "R", "E", "U", "M">>, <<"0", "x", "5", "f", "4", "e", "c", "3", "d", "f", "9", "c", "b", "d", "4", "3", "7", "1", "4", "f", "e", "2", "7", "4", "0", "f", "5", "e", "3", "6", "1", "6", "1", "5", "5", "c", "5", "b", "8", "4", "1", "9">>>> }

CHAINLINK_AGGREGATORS_BY_CHAIN ==
    { <<<<"A", "R", "B", "I", "T", "R", "U", "M">>, <<"E", "T", "H", "/", "U", "S", "D">>, <<"0", "x", "6", "3", "9", "F", "e", "6", "a", "b", "5", "5", "C", "9", "2", "1", "f", "7", "4", "e", "7", "f", "a", "c", "1", "e", "e", "9", "6", "0", "C", "0", "B", "6", "2", "9", "3", "b", "a", "6", "1", "2">>>>,
      <<<<"A", "R", "B", "I", "T", "R", "U", "M">>, <<"B", "T", "C", "/", "U", "S", "D">>, <<"0", "x", "6", "c", "e", "1", "8", "5", "8", "6", "0", "a", "4", "9", "6", "3", "1", "0", "6", "5", "0", "6", "C", "2", "0", "3", "3", "3", "5", "A", "2", "9", "1", "0", "4", "1", "3", "7", "0", "8", "e", "9">>>>,
      <<<<"A", "R", "B", "I", "T", "R", "U", "M">>, <<"L", "I", "N", "K", "/", "U", "S", "D">>, <<"0", "x", "8", "6", "E", "5", "3", "C", "F", "1", "B", "8", "7", "0", "7", "8", "6", "3", "5", "1", "D", "a", "7", "7", "A", "5", "7", "5", "7", "5", "e", "7", "9", "C", "B", "5", "5", "8", "1", "2", "C", "B">>>>,
      <<<<"A", "R", "B", "I", "T", "R", "U", "M">>, <<"A", "R", "B", "/", "U", "S", "D">>, <<"0", "x", "b", "2", "A", "8", "2", "4", "0", "4", "3", "7", "3", "0", "F", "E", "0", "5", "F", "3", "D", "A", "2", "e", "f", "a", "F", "a", "1", "C", "B", "b", "e", "8", "3", "f", "a", "5", "4", "8", "D", "6">>>> }

\* Every white-space character removed.
removeSpaces(s) == SelectSeq(s, LAMBDA c : ~IsSpace(c))

\* config[k] = v
SetProp(config, k, v) == JObj(Put(config.f, k, v))

normalizeChain(raw) ==
    IF raw.t # "string" THEN DEFAULT_ORACLE_CHAIN
    ELSE IF separatorsToUnderscore(toUpperCase(trim(raw.s))) # <<>>
         THEN separatorsToUnderscore(toUpperCase(trim(raw.s)))
         ELSE DEFAULT_ORACLE_CHAIN

normalizeOracleProvider(raw, backendType) ==
    IF raw.t = "string" /\ toUpperCase(trim(raw.s)) = <<"P", "Y", "T", "H">> THEN <<"P", "Y", "T", "H">>
    ELSE IF raw.t = "string" /\ toUpperCase(trim(raw.s)) = <<"C", "H", "A", "I", "N", "L", "I", "N", "K">> THEN <<"C", "H", "A", "I", "N", "L", "I", "N", "K">>
    ELSE IF backendType = "PYTH_PRICE_ORACLE" THEN <<"P", "Y", "T", "H">> ELSE <<"C", "H", "A", "I", "N", "L", "I", "N", "K">>

\* CHAINLINK_ETH_USD_AGGREGATORS[chain] ?? CHAINLINK_ETH_USD_AGGREGATORS.ARBITRUM
EthUsdAggregator(chain) ==
    IF \E p \in CHAINLINK_ETH_USD_AGGREGATORS : p[1] = chain
    THEN (CHOOSE p \in CHAINLINK_ETH_USD_AGGREGATORS : p[1] = chain)[2]
    ELSE (CHOOSE p \in CHAINLINK_ETH_USD_AGGREGATORS : p[1] = <<"A", "R", "B", "I", "T", "R", "U", "M">>)[2]

\* The address guessed, or null.
isEthUsd(feed, asset, currency) ==
    feed = <<"E", "T", "H", "/", "U", "S", "D">> \/ (asset = <<"E", "T", "H">> /\ currency = <<"U", "S", "D">>)

guessAggregatorFromHints(chain, configHints) ==
    IF ~isEthUsd(removeSpaces(toUpperCase(StringOrEmpty(Get(configHints, <<"f", "e", "e", "d">>)))),
                 toUpperCase(StringOrEmpty(Get(configHints, <<"a", "s", "s", "e", "t">>))),
                 toUpperCase(StringOrEmpty(Get(configHints, <<"c", "u", "r", "r", "e", "n", "c", "y">>))))
    THEN JNull
    ELSE JStr(EthUsdAggregator(chain))

\* The config built and the warnings after it.
Built(config, warnings) == [config |-> config, warnings |-> warnings]

\* case 'TELEGRAM' of buildBaseConfigForBlock, statement by statement.
telegramConnection(config, telegramConnectionId) ==
    IF Truthy(telegramConnectionId) /\ ~Truthy(Get(config, <<"c", "o", "n", "n", "e", "c", "t", "i", "o", "n", "I", "d">>))
    THEN SetProp(config, <<"c", "o", "n", "n", "e", "c", "t", "i", "o", "n", "I", "d">>, telegramConnectionId) ELSE config

telegramMessageFromText(config) ==
    IF /\ ~Truthy(Get(config, <<"m", "e", "s", "s", "a", "g", "e">>))
       /\ Get(config, <<"t", "e", "x", "t">>).t = "string"
       /\ trim(Get(config, <<"t", "e", "x", "t">>).s) # <<>>
    THEN SetProp(config, <<"m", "e", "s", "s", "a", "g", "e">>, JStr(trim(Get(config, <<"t", "e", "x", "t">>).s))) ELSE config

telegramDefaultMessage(config, purpose) ==
    IF ~Truthy(Get(config, <<"m", "e", "s", "s", "a", "g", "e">>))
    THEN SetProp(config, <<"m", "e", "s", "s", "a", "g", "e">>,
                 IF purpose # <<>> THEN JStr(purpose)
                 ELSE JStr(<<"T", "e", "l", "e", "g", "r", "a", "m", " ", "n", "o", "t", "i", "f", "i", "c", "a", "t", "i", "o", "n", " ", "f", "r", "o", "m", " ", "w", "o", "r", "k", "f", "l", "o", "w", ".">>))
    ELSE config

telegramChatId(config, chatId) ==
    IF ~Truthy(Get(config, <<"c", "h", "a", "t", "I", "d">>)) /\ Truthy(chatId)
    THEN SetProp(config, <<"c", "h", "a", "t", "I", "d">>, chatId) ELSE config

telegramWarning(config, warnings) ==
    Built(config, IF ~Truthy(Get(config, <<"c", "o", "n", "n", "e", "c", "t", "i", "o", "n", "I", "d">>))
                  THEN Append(warnings, [missing |-> "connectionId"])
                  ELSE warnings)

telegramConfig(config, purpose, chatId, warnings, telegramConnectionId) ==
    telegramWarning(
        telegramChatId(
            telegramDefaultMessage(
                telegramMessageFromText(telegramConnection(config, telegramConnectionId)),
                purpose),
            chatId),
        warnings)

\* cases 'CHAINLINK_PRICE_ORACLE', 'PYTH_PRICE_ORACLE', 'PRICE_ORACLE',
\* statement by statement.
oracleProviderAndChain(config, backendType) ==
    SetProp(SetProp(config, <<"p", "r", "o", "v", "i", "d", "e", "r">>,
                    JStr(normalizeOracleProvider(Get(config, <<"p", "r", "o", "v", "i", "d", "e", "r">>), backendType))),
            <<"c", "h", "a", "i", "n">>, JStr(normalizeChain(Get(config, <<"c", "h", "a", "i", "n">>))))

IsChainlink(config) == Get(config, <<"p", "r", "o", "v", "i", "d", "e", "r">>) = JStr(<<"C", "H", "A", "I", "N", "L", "I", "N", "K">>)

feedKeyOf(config) ==
    IF Get(config, <<"f", "e", "e", "d">>).t = "string" /\ trim(Get(config, <<"f", "e", "e", "d">>).s) # <<>>
    THEN removeSpaces(toUpperCase(trim(Get(config, <<"f", "e", "e", "d">>).s))) ELSE <<>>

AggregatorsOf(chain, feedKey) ==
    {p \in CHAINLINK_AGGREGATORS_BY_CHAIN : p[1] = chain /\ p[2] = feedKey}

oracleFeedAggregator(config, feedKey) ==
    IF feedKey # <<>> /\ AggregatorsOf(Get(config, <<"c", "h", "a", "i", "n">>).s, feedKey) # {}
    THEN SetProp(config, <<"a", "g", "g", "r", "e", "g", "a", "t", "o", "r", "A", "d", "d", "r", "e", "s", "s">>,
                 JStr((CHOOSE p \in AggregatorsOf(Get(config, <<"c", "h", "a", "i", "n">>).s, feedKey) : TRUE)[3]))
    ELSE config

oracleGuessedAggregator(config, guessed) ==
    IF ~Truthy(Get(config, <<"a", "g", "g", "r", "e", "g", "a", "t", "o", "r", "A", "d", "d", "r", "e", "s", "s">>)) /\ Truthy(guessed)
    THEN SetProp(config, <<"a", "g", "g", "r", "e", "g", "a", "t", "o", "r", "A", "d", "d", "r", "e", "s", "s">>, guessed) ELSE config

\* if (provider === 'CHAINLINK' && !config.aggregatorAddress) { ... }
oracleLookup(config, configHints) ==
    IF IsChainlink(config) /\ ~Truthy(Get(config, <<"a", "g", "g", "r", "e", "g", "a", "t", "o", "r", "A", "d", "d", "r", "e", "s", "s">>))
    THEN oracleGuessedAggregator(
             oracleFeedAggregator(config, feedKeyOf(config)),
             guessAggregatorFromHints(Get(config, <<"c", "h", "a", "i", "n">>).s, configHints))
    ELSE config

oracleDefaultAggregator(built) ==
    IF IsChainlink(built.config) /\ ~Truthy(Get(built.config, <<"a", "g", "g", "r", "e", "g", "a", "t", "o", "r", "A", "d", "d", "r", "e", "s", "s">>))
    THEN Built(SetProp(built.config, <<"a", "g", "g", "r", "e", "g", "a", "t", "o", "r", "A", "d", "d", "r", "e", "s", "s">>,
                       JStr(EthUsdAggregator(Get(built.config, <<"c", "h", "a", "i", "n">>).s))),
               Append(built.warnings, [missing |-> "aggregatorAddress"]))
    ELSE built

oraclePythWarning(built) ==
    IF Get(built.config, <<"p", "r", "o", "v", "i", "d", "e", "r">>) = JStr(<<"P", "Y", "T", "H">>)
       /\ ~Truthy(Get(built.config, <<"p", "r", "i", "c", "e", "F", "e", "e", "d", "I", "d">>))
    THEN Built(built.config, Append(built.warnings, [missing |-> "priceFeedId"]))
    ELSE built

oracleStaleAfter(config) ==
    IF ~Truthy(Get(config, <<"s", "t", "a", "l", "e", "A", "f", "t", "e", "r", "S", "e", "c", "o", "n", "d", "s">>))
    THEN SetProp(config, <<"s", "t", "a", "l", "e", "A", "f", "t", "e", "r", "S", "e", "c", "o", "n", "d", "s">>, JNum(3600)) ELSE config

oracleOutputMapping(config) ==
    IF /\ Get(config, <<"o", "u", "t", "p", "u", "t">>).t = "string"
       /\ trim(Get(config, <<"o", "u", "t", "p", "u", "t">>).s) # <<>>
       /\ ~Truthy(Get(config, <<"o", "u", "t", "p", "u", "t", "M", "a", "p", "p", "i", "n", "g">>))
    THEN SetProp(config, <<"o", "u", "t", "p", "u", "t", "M", "a", "p", "p", "i", "n", "g">>,
                 JObj(<<Prop(trim(Get(config, <<"o", "u", "t", "p", "u", "t">>).s), JStr(<<"f", "o", "r", "m", "a", "t", "t", "e", "d", "A", "n", "s", "w", "e", "r">>))>>))
    ELSE config

oracleDescription(config, purpose) ==
    IF ~Truthy(Get(config, <<"d", "e", "s", "c", "r", "i", "p", "t", "i", "o", "n">>))
    THEN SetProp(config, <<"d", "e", "s", "c", "r", "i", "p", "t", "i", "o", "n">>, JStr(purpose)) ELSE config

oracleTail(built, purpose) ==
    Built(oracleDescription(oracleOutputMapping(oracleStaleAfter(built.config)), purpose),
          built.warnings)

oracleConfig(config, backendType, purpose, configHints, warnings) ==
    oracleTail(
        oraclePythWarning(
            oracleDefaultAggregator(
                Built(oracleLookup(oracleProviderAndChain(config, backendType), configHints),
                      warnings))),
        purpose)

\* delete config[k]
DeleteProp(config, k) == JObj(SelectSeq(config.f, LAMBDA e : e.k # k))

IF_OPERATOR_MAP ==
    { <<<<"<">>, <<"l", "t">>>>, <<<<">">>, <<"g", "t">>>>, <<<<"<", "=">>, <<"l", "t", "e">>>>, <<<<">", "=">>, <<"g", "t", "e">>>>,
      <<<<"=", "=">>, <<"e", "q", "u", "a", "l", "s">>>>, <<<<"=">>, <<"e", "q", "u", "a", "l", "s">>>>, <<<<"!", "=">>, <<"n", "o", "t", "E", "q", "u", "a", "l", "s">>>> }

IsAlnum(c) ==
    \/ IsDigit(c)
    \/ \E j \in DOMAIN UpperLetters : UpperLetters[j] = c \/ LowerLetters[j] = c

\* /^[A-Z0-9]+\/[A-Z0-9]+$/i
IsPairSymbol(s) ==
    \E k \in 2..(Len(s) - 1) :
        /\ s[k] = "/"
        /\ \A i \in DOMAIN s : i # k => IsAlnum(s[i])

\* The positions where (<=|>=|==|!=|<|>|=) can match.
OperatorPositions(s) ==
    {j \in DOMAIN s : \/ s[j] \in {"<", ">", "="}
                      \/ (s[j] = "!" /\ j < Len(s) /\ s[j + 1] = "=")}

\* The operator matched at position j: the two-character alternatives first.
OperatorAt(s, j) ==
    IF j < Len(s) /\ SubSeq(s, j, j + 1) \in {<<"<", "=">>, <<">", "=">>, <<"=", "=">>, <<"!", "=">>}
    THEN SubSeq(s, j, j + 1) ELSE <<s[j]>>

\* The start of the white space that ends just before position j.
SpaceStart(s, j) ==
    CHOOSE i \in 1..j : /\ \A k \in i..(j - 1) : IsSpace(s[k])
                        /\ (i = 1 \/ ~IsSpace(s[i - 1]))

\* The end of the white space that starts at position j (j - 1 if none).
SpaceEnd(s, j) ==
    CHOOSE e \in (j - 1)..Len(s) : /\ \A k \in j..e : IsSpace(s[k])
                                   /\ (e = Len(s) \/ ~IsSpace(s[e + 1]))

\* trimmed.match(/\s*(<=|>=|==|!=|<|>|=)\s*/): the leftmost match, each \s*
\* as long as it can be; text is operatorMatch[0] and op operatorMatch[1].
operatorMatchAt(s, j) ==
    [found |-> TRUE,
     text |-> SubSeq(s, SpaceStart(s, j), SpaceEnd(s, j + Len(OperatorAt(s, j)))),
     op |-> OperatorAt(s, j)]

operatorMatch(s) ==
    IF OperatorPositions(s) = {} THEN [found |-> FALSE]
    ELSE operatorMatchAt(s, CHOOSE j \in OperatorPositions(s) :
                                \A k \in OperatorPositions(s) : j <= k)

\* text.split(separator, 2) for a separator that occurs in the text: what is
\* before its first occurrence, and what is between that and the next one.
splitTwoRest(rest, separator) ==
    IF indexOf(rest, separator) = 0 THEN rest
    ELSE SubSeq(rest, 1, indexOf(rest, separator) - 1)

splitTwo(text, separator) ==
    << SubSeq(text, 1, indexOf(text, separator) - 1),
       splitTwoRest(from(text, indexOf(text, separator) + Len(separator)), separator) >>

parsedCondition(m, parts) ==
    [ok |-> TRUE,
     leftPath |-> IF IsPairSymbol(trim(parts[1])) THEN <<"f", "o", "r", "m", "a", "t", "t", "e", "d", "A", "n", "s", "w", "e", "r">> ELSE trim(parts[1]),
     operator |-> (CHOOSE p \in IF_OPERATOR_MAP : p[1] = m.op)[2],
     rightValue |-> trim(parts[2])]

parseIfConditionMatched(trimmed, m) ==
    IF ~m.found THEN [ok |-> FALSE]
    ELSE parsedCondition(m, splitTwo(trimmed, m.text))

parseIfConditionString_Unparsed(condition) == [ok |-> FALSE]

\* The triple of a condition, or null (ok = FALSE).
parseIfConditionString(condition) ==
    parseIfConditionMatched(trim(condition), operatorMatch(trim(condition)))

\* /^[A-Z0-9]+\/[A-Z0-9]+\s+price$/i
IsPairThenPrice(s) ==
    /\ Len(s) > 5
    /\ toLowerCase(SubSeq(s, Len(s) - 4, Len(s))) = <<"p", "r", "i", "c", "e">>
    /\ \E k \in 1..(Len(s) - 6) :
          /\ IsPairSymbol(SubSeq(s, 1, k))
          /\ \A i \in (k + 1)..(Len(s) - 5) : IsSpace(s[i])

\* /^[A-Z0-9]+USD$/i
IsUsdSymbol(s) ==
    /\ Len(s) > 3
    /\ \A i \in DOMAIN s : IsAlnum(s[i])
    /\ toUpperCase(SubSeq(s, Len(s) - 2, Len(s))) = <<"U", "S", "D">>

looksLikePriceFeedPath(path) ==
    /\ path.t = "string"
    /\ path.s # <<>>
    /\ \/ IsPairSymbol(trim(path.s))
       \/ IsPairThenPrice(trim(path.s))
       \/ IsUsdSymbol(trim(path.s))
       \/ toLowerCase(trim(path.s)) = <<"p", "r", "i", "c", "e">>

\* case 'IF', statement by statement.
ifConditionStr(config) ==
    IF Get(config, <<"c", "o", "n", "d", "i", "t", "i", "o", "n">>).t = "string" THEN trim(Get(config, <<"c", "o", "n", "d", "i", "t", "i", "o", "n">>).s) ELSE <<>>

ifParsed(config, parsed) ==
    IF parsed.ok
    THEN SetProp(SetProp(SetProp(config, <<"l", "e", "f", "t", "P", "a", "t", "h">>, JStr(parsed.leftPath)),
                         <<"o", "p", "e", "r", "a", "t", "o", "r">>, JStr(parsed.operator)),
                 <<"r", "i", "g", "h", "t", "V", "a", "l", "u", "e">>, JStr(parsed.rightValue))
    ELSE config

ifCondition(config) ==
    IF ifConditionStr(config) # <<>>
    THEN DeleteProp(ifParsed(config, parseIfConditionString(ifConditionStr(config))),
                    <<"c", "o", "n", "d", "i", "t", "i", "o", "n">>)
    ELSE config

ifDefaultLeftPath(config) ==
    IF ~Truthy(Get(config, <<"l", "e", "f", "t", "P", "a", "t", "h">>)) THEN SetProp(config, <<"l", "e", "f", "t", "P", "a", "t", "h">>, JStr(<<>>))
    ELSE config

ifDefaultOperator(config) ==
    IF ~Truthy(Get(config, <<"o", "p", "e", "r", "a", "t", "o", "r">>)) THEN SetProp(config, <<"o", "p", "e", "r", "a", "t", "o", "r">>, JStr(<<"e", "q", "u", "a", "l", "s">>))
    ELSE config

ifDefaultRightValue(config) ==
    IF Get(config, <<"r", "i", "g", "h", "t", "V", "a", "l", "u", "e">>) = JUndefined THEN SetProp(config, <<"r", "i", "g", "h", "t", "V", "a", "l", "u", "e">>, JStr(<<>>))
    ELSE config

ifPriceFeedPath(config) ==
    IF looksLikePriceFeedPath(Get(config, <<"l", "e", "f", "t", "P", "a", "t", "h">>))
    THEN SetProp(config, <<"l", "e", "f", "t", "P", "a", "t", "h">>, JStr(<<"f", "o", "r", "m", "a", "t", "t", "e", "d", "A", "n", "s", "w", "e", "r">>))
    ELSE config

ifConfig(config, warnings) ==
    Built(ifPriceFeedPath(ifDefaultRightValue(ifDefaultOperator(ifDefaultLeftPath(
              ifCondition(config))))),
          warnings)

\* case 'SWAP'.
COMMON_TOKENS_BY_CHAIN ==
    { <<<<"A", "R", "B", "I", "T", "R", "U", "M", "_", "S", "E", "P", "O", "L", "I", "A">>, <<"W", "E", "T", "H">>, <<"0", "x", "9", "8", "0", "B", "6", "2", "D", "a", "8", "3", "e", "F", "f", "3", "D", "4", "5", "7", "6", "C", "6", "4", "7", "9", "9", "3", "b", "0", "c", "1", "D", "7", "f", "a", "f", "1", "7", "c", "7", "3">>, 18>>,
      <<<<"A", "R", "B", "I", "T", "R", "U", "M", "_", "S", "E", "P", "O", "L", "I", "A">>, <<"U", "S", "D", "C">>, <<"0", "x", "7", "5", "f", "a", "f", "1", "1", "4", "e", "a", "f", "b", "1", "B", "D", "b", "e", "2", "F", "0", "3", "1", "6", "D", "F", "8", "9", "3", "f", "d", "5", "8", "C", "E", "4", "6", "A", "A", "4", "d">>, 6>>,
      <<<<"E", "T", "H", "E", "R", "E", "U", "M", "_", "S", "E", "P", "O", "L", "I", "A">>, <<"W", "E", "T", "H">>, <<"0", "x", "f", "F", "f", "9", "9", "7", "6", "7", "8", "2", "d", "4", "6", "C", "C", "0", "5", "6", "3", "0", "D", "1", "f", "6", "e", "B", "A", "b", "1", "8", "b", "2", "3", "2", "4", "d", "6", "B", "1", "4">>, 18>>,
      <<<<"E", "T", "H", "E", "R", "E", "U", "M", "_", "S", "E", "P", "O", "L", "I", "A">>, <<"U", "S", "D", "C">>, <<"0", "x", "1", "c", "7", "D", "4", "B", "1", "9", "6", "C", "b", "0", "C", "7", "B", "0", "1", "d", "7", "4", "3", "F", "b", "c", "6", "1", "1", "6", "a", "9", "0", "2", "3", "7", "9", "C", "7", "2", "3", "8">>, 6>>,
      <<<<"U", "N", "I", "C", "H", "A", "I", "N", "_", "S", "E", "P", "O", "L", "I", "A">>, <<"W", "E", "T", "H">>, <<"0", "x", "4", "2", "0", "0", "0", "0", "0", "0", "0", "0", "0", "0", "0", "0", "0", "0", "0", "0", "0", "0", "0", "0", "0", "0", "0", "0", "0", "0", "0", "0", "0", "0", "0", "0", "0", "0", "0", "0", "0", "6">>, 18>>,
      <<<<"U", "N", "I", "C", "H", "A", "I", "N", "_", "S", "E", "P", "O", "L", "I", "A">>, <<"U", "S", "D", "C">>, <<"0", "x", "3", "1", "d", "0", "2", "2", "0", "4", "6", "9", "e", "1", "0", "c", "4", "e", "7", "1", "8", "3", "4", "a", "7", "9", "b", "1", "f", "2", "7", "6", "d", "7", "4", "0", "d", "3", "7", "6", "8", "f">>, 6>>,
      <<<<"A", "R", "B", "I", "T", "R", "U", "M">>, <<"W", "E", "T", "H">>, <<"0", "x", "8", "2", "a", "F", "4", "9", "4", "4", "7", "D", "8", "a", "0", "7", "e", "3", "b", "d", "9", "5", "B", "D", "0", "d", "5", "6", "f", "3", "5", "2", "4", "1", "5", "2", "3", "f", "B", "a", "b", "1">>, 18>>,
      <<<<"A", "R", "B", "I", "T", "R", "U", "M">>, <<"U", "S", "D", "C">>, <<"0", "x", "a", "f", "8", "8", "d", "0", "6", "5", "e", "7", "7", "c", "8", "c", "C", "2", "2", "3", "9", "3", "2", "7", "C", "5", "E", "D", "b", "3", "A", "4", "3", "2", "2", "6", "8", "e", "5", "8", "3", "1">>, 6>>,
      <<<<"E", "T", "H", "E", "R", "E", "U", "M">>, <<"W", "E", "T", "H">>, <<"0", "x", "C", "0", "2", "a", "a", "A", "3", "9", "b", "2", "2", "3", "F", "E", "8", "D", "0", "A", "0", "e", "5", "C", "4", "F", "2", "7", "e", "A", "D", "9", "0", "8", "3", "C", "7", "5", "6", "C", "c", "2">>, 18>>,
      <<<<"E", "T", "H", "E", "R", "E", "U", "M">>, <<"U", "S", "D", "C">>, <<"0", "x", "A", "0", "b", "8", "6", "9", "9", "1", "c", "6", "2", "1", "8", "b", "3", "6", "c", "1", "d", "1", "9", "D", "4", "a", "2", "e", "9", "E", "b", "0", "c", "E", "3", "6", "0", "6", "e", "B", "4", "8">>, 6>>,
      <<<<"U", "N", "I", "C", "H", "A", "I", "N">>, <<"W", "E", "T", "H">>, <<"0", "x", "4", "2", "0", "0", "0", "0", "0", "0", "0", "0", "0", "0", "0", "0", "0", "0", "0", "0", "0", "0", "0", "0", "0", "0", "0", "0", "0", "0", "0", "0", "0", "0", "0", "0", "0", "0", "0", "0", "0", "6">>, 18>>,
      <<<<"U", "N", "I", "C", "H", "A", "I", "N">>, <<"U", "S", "D", "C">>, <<"0", "x", "0", "7", "8", "d", "7", "8", "2", "b", "7", "6", "0", "4", "7", "4", "a", "3", "6", "1", "d", "d", "a", "0", "a", "f", "3", "8", "3", "9", "2", "9", "0", "b", "0", "e", "f", "5", "7", "a", "d", "6">>, 6>>,
      <<<<"B", "A", "S", "E">>, <<"W", "E", "T", "H">>, <<"0", "x", "4", "2", "0", "0", "0", "0", "0", "0", "0", "0", "0", "0", "0", "0", "0", "0", "0", "0", "0", "0", "0", "0", "0", "0", "0", "0", "0", "0", "0", "0", "0", "0", "0", "0", "0", "0", "0", "0", "0", "6">>, 18>>,
      <<<<"B", "A", "S", "E">>, <<"U", "S", "D", "C">>, <<"0", "x", "8", "3", "3", "5", "8", "9", "f", "C", "D", "6", "e", "D", "b", "6", "E", "0", "8", "f", "4", "c", "7", "C", "3", "2", "D", "4", "f", "7", "1", "b", "5", "4", "b", "d", "A", "0", "2", "9", "1", "3">>, 6>> }

PLACEHOLDER_ADDRESS == <<"0", "x", "0", "0", "0", "0", "0", "0", "0", "0", "0", "0", "0", "0", "0", "0", "0", "0", "0", "0", "0", "0", "0", "0", "0", "0", "0", "0", "0", "0", "0", "0", "0", "0", "0", "0", "0", "0", "0", "0", "0", "0">>

\* The longest run of digits a text starts with.
RECURSIVE DigitsPrefix(_)
DigitsPrefix(s) ==
    IF s # <<>> /\ IsDigit(Head(s)) THEN <<Head(s)>> \o DigitsPrefix(Tail(s)) ELSE <<>>

RECURSIVE StripLeadingZeros(_)
StripLeadingZeros(s) ==
    IF Len(s) > 1 /\ Head(s) = "0" THEN StripLeadingZeros(Tail(s)) ELSE s

RECURSIVE StripTrailingZeros(_)
StripTrailingZeros(s) ==
    IF s # <<>> /\ s[Len(s)] = "0" THEN StripTrailingZeros(SubSeq(s, 1, Len(s) - 1)) ELSE s

\* The decimals among the amounts of the plans that no double equals, each
\* with the double nearest to it written out in full (whole part, fraction).
NEAREST_DOUBLES ==
    { << <<<<"0">>, <<"1">>>>,
         <<<<"0">>, <<"1", "0", "0", "0", "0", "0", "0", "0", "0", "0", "0", "0", "0", "0", "0", "0", "0", "5", "5", "5", "1", "1", "1", "5", "1", "2", "3", "1", "2", "5", "7", "8", "2", "7", "0", "2", "1", "1", "8", "1", "5", "8", "3", "4", "0", "4", "5", "4", "1", "0", "1", "5", "6", "2", "5">>>> >>,
      << <<<<"1">>, <<"2", "3", "4", "5", "6", "7", "8">>>>,
         <<<<"1">>, <<"2", "3", "4", "5", "6", "7", "7", "9", "9", "9", "9", "9", "9", "9", "9", "9", "9", "2", "9", "7", "6", "9", "9", "5", "5", "9", "9", "7", "4", "7", "1", "6", "9", "7", "6", "2", "8", "4", "9", "8", "0", "7", "7", "3", "9", "2", "5", "7", "8", "1", "2", "5">>>> >> }

\* The double of a decimal given as the digits before and after its point.
DoubleOf(negative, whole, frac) ==
    With(<<StripLeadingZeros(IF whole = <<>> THEN <<"0">> ELSE whole), StripTrailingZeros(frac)>>,
         LAMBDA decimal :
        [kind |-> "finite",
         negative |-> negative,
         whole |-> IF \E p \in NEAREST_DOUBLES : p[1] = decimal
                   THEN (CHOOSE p \in NEAREST_DOUBLES : p[1] = decimal)[2][1]
                   ELSE decimal[1],
         frac |-> IF \E p \in NEAREST_DOUBLES : p[1] = decimal
                  THEN (CHOOSE p \in NEAREST_DOUBLES : p[1] = decimal)[2][2]
                  ELSE decimal[2]])

parseFloatFraction(rest) ==
    IF rest # <<>> /\ Head(rest) = "." THEN DigitsPrefix(Tail(rest)) ELSE <<>>

parseFloatUnsigned(negative, body) ==
    With(DigitsPrefix(body), LAMBDA whole :
        With(parseFloatFraction(from(body, Len(whole) + 1)), LAMBDA frac :
            IF whole = <<>> /\ frac = <<>> THEN NaN
            ELSE DoubleOf(negative, whole, frac)))

\* parseFloat(text) for texts without an exponent: the number of the longest
\* prefix that is a decimal, or NaN.
parseFloat(text) ==
    With(trimStart(text), LAMBDA t :
        IF t = <<>> THEN NaN
        ELSE IF Head(t) = "-" THEN parseFloatUnsigned(TRUE, Tail(t))
        ELSE IF Head(t) = "+" THEN parseFloatUnsigned(FALSE, Tail(t))
        ELSE parseFloatUnsigned(FALSE, t))

IsZeroNumber(n) == n.whole = <<"0">> /\ n.frac = <<>>

\* The digits of a natural number plus one.
RECURSIVE Increment(_)
Increment(digits) ==
    IF digits = <<>> THEN <<"1">>
    ELSE IF digits[Len(digits)] = "9"
         THEN Increment(SubSeq(digits, 1, Len(digits) - 1)) \o <<"0">>
         ELSE SubSeq(digits, 1, Len(digits) - 1)
              \o <<DigitChars[DigitValue(digits[Len(digits)]) + 2]>>

\* The first n characters of s padded with zeros at the end.
PadOrCut(s, n) ==
    IF Len(s) >= n THEN SubSeq(s, 1, n) ELSE s \o Rep("0", n - Len(s))

\* n.toFixed(digits) for 0 <= n < 10^21, as the text before the point and
\* the text after it: the multiple of 10^-digits nearest to n, the larger
\* one of two.
toFixedDigits(n, digits, all) ==
    [head |-> SubSeq(all, 1, Len(all) - digits),
     tail |-> SubSeq(all, Len(all) - digits + 1, Len(all))]

toFixed(n, digits) ==
    toFixedDigits(n, digits,
        IF Len(n.frac) > digits /\ DigitValue(n.frac[digits + 1]) >= 5
        THEN With(Increment(n.whole \o PadOrCut(n.frac, digits)), LAMBDA up :
                 IF Len(up) > digits THEN up ELSE <<"0">> \o up)
        ELSE n.whole \o PadOrCut(n.frac, digits))

\* The amount in the token's smallest unit.
toWeiString(amountHuman, decimals) ==
    With(parseFloat(amountHuman), LAMBDA n :
        IF n.kind # "finite" \/ (n.negative /\ ~IsZeroNumber(n)) THEN <<"0">>
        ELSE With(toFixed(n, decimals), LAMBDA s :
                 (IF s.head = <<"0">> THEN <<>> ELSE s.head) \o PadOrCut(s.tail, decimals)))

\* String(a ?? b ?? '').trim().toUpperCase() for hints.
symbolOf(config, first, second) ==
    toUpperCase(trim(
        IF Get(config, first) # JUndefined THEN Get(config, first).s
        ELSE StringOrEmpty(Get(config, second))))

IsKnownToken(chain, symbol) ==
    \E t \in COMMON_TOKENS_BY_CHAIN : t[1] = chain /\ t[2] = symbol

\* tokens?.[symbol] ? {...} : {placeholder}; the hints are strings, which
\* have no address.
tokenOf(chain, symbol) ==
    IF IsKnownToken(chain, symbol)
    THEN With(CHOOSE t \in COMMON_TOKENS_BY_CHAIN : t[1] = chain /\ t[2] = symbol, LAMBDA t :
             [address |-> t[3], symbol |-> t[2], decimals |-> t[4]])
    ELSE [address |-> PLACEHOLDER_ADDRESS, symbol |-> symbol, decimals |-> 18]

TokenObject(token) ==
    JObj(<<Prop(<<"a", "d", "d", "r", "e", "s", "s">>, JStr(token.address)), Prop(<<"s", "y", "m", "b", "o", "l">>, JStr(token.symbol)),
           Prop(<<"d", "e", "c", "i", "m", "a", "l", "s">>, JNum(token.decimals))>>)

HexChars == <<"0", "1", "2", "3", "4", "5", "6", "7", "8", "9", "a", "b", "c", "d", "e", "f", "A", "B", "C", "D", "E", "F">>

\* /^0x[a-fA-F0-9]{40}$/
IsAddress(v) ==
    /\ v.t = "string"
    /\ Len(v.s) = 42
    /\ SubSeq(v.s, 1, 2) = <<"0", "x">>
    /\ \A i \in 3..42 : \E j \in DOMAIN HexChars : HexChars[j] = v.s[i]

\* /^[A-Z_0-9]+$/
IsProviderName(v) ==
    /\ v.t = "string"
    /\ v.s # <<>>
    /\ \A i \in DOMAIN v.s :
          \/ IsDigit(v.s[i]) \/ v.s[i] = "_"
          \/ \E j \in DOMAIN UpperLetters : UpperLetters[j] = v.s[i]

\* The number 0.5.
DEFAULT_SLIPPAGE == [t |-> "number", tenths |-> 5]

swapChainAndProvider(config) ==
    SetProp(SetProp(config, <<"c", "h", "a", "i", "n">>, JStr(normalizeChain(Get(config, <<"c", "h", "a", "i", "n">>)))),
            <<"p", "r", "o", "v", "i", "d", "e", "r">>,
            IF IsProviderName(Get(config, <<"p", "r", "o", "v", "i", "d", "e", "r">>)) THEN Get(config, <<"p", "r", "o", "v", "i", "d", "e", "r">>)
            ELSE JStr(<<"U", "N", "I", "S", "W", "A", "P", "_", "V", "4">>))

swapInputConfig(config, sourceToken, destinationToken, amountHuman) ==
    JObj(<<Prop(<<"s", "o", "u", "r", "c", "e", "T", "o", "k", "e", "n">>, TokenObject(sourceToken)),
           Prop(<<"d", "e", "s", "t", "i", "n", "a", "t", "i", "o", "n", "T", "o", "k", "e", "n">>, TokenObject(destinationToken)),
           Prop(<<"a", "m", "o", "u", "n", "t">>, JStr(toWeiString(amountHuman, sourceToken.decimals))),
           Prop(<<"s", "w", "a", "p", "T", "y", "p", "e">>, IF Get(config, <<"s", "w", "a", "p", "T", "y", "p", "e">>) = JStr(<<"E", "X", "A", "C", "T", "_", "O", "U", "T", "P", "U", "T">>)
                             THEN JStr(<<"E", "X", "A", "C", "T", "_", "O", "U", "T", "P", "U", "T">>) ELSE JStr(<<"E", "X", "A", "C", "T", "_", "I", "N", "P", "U", "T">>)),
           Prop(<<"w", "a", "l", "l", "e", "t", "A", "d", "d", "r", "e", "s", "s">>, IF IsAddress(Get(config, <<"w", "a", "l", "l", "e", "t", "A", "d", "d", "r", "e", "s", "s">>))
                                  THEN Get(config, <<"w", "a", "l", "l", "e", "t", "A", "d", "d", "r", "e", "s", "s">>)
                                  ELSE JStr(PLACEHOLDER_ADDRESS)),
           Prop(<<"s", "l", "i", "p", "p", "a", "g", "e", "T", "o", "l", "e", "r", "a", "n", "c", "e">>, DEFAULT_SLIPPAGE)>>)

swapWarnings_None(chain, fromSymbol, toSymbol, warnings) == warnings

swapWarnings(chain, fromSymbol, toSymbol, warnings) ==
    IF ~IsKnownToken(chain, fromSymbol) \/ ~IsKnownToken(chain, toSymbol)
    THEN Append(warnings, [unknownTokens |-> chain,
                           fromToken |-> IF fromSymbol # <<>> THEN fromSymbol ELSE <<"?">>,
                           toToken |-> IF toSymbol # <<>> THEN toSymbol ELSE <<"?">>])
    ELSE warnings

swapTokens(config, chain, fromSymbol, toSymbol, amountHuman, warnings) ==
    Built(DeleteProp(DeleteProp(DeleteProp(DeleteProp(
              SetProp(config, <<"i", "n", "p", "u", "t", "C", "o", "n", "f", "i", "g">>,
                      swapInputConfig(config, tokenOf(chain, fromSymbol),
                                      tokenOf(chain, toSymbol), amountHuman)),
              <<"f", "r", "o", "m", "T", "o", "k", "e", "n">>), <<"t", "o", "T", "o", "k", "e", "n">>), <<"s", "o", "u", "r", "c", "e", "T", "o", "k", "e", "n">>), <<"d", "e", "s", "t", "i", "n", "a", "t", "i", "o", "n", "T", "o", "k", "e", "n">>),
          swapWarnings(chain, fromSymbol, toSymbol, warnings))

swapConfigFrom(config, warnings) ==
    swapTokens(config, Get(config, <<"c", "h", "a", "i", "n">>).s,
               symbolOf(config, <<"f", "r", "o", "m", "T", "o", "k", "e", "n">>, <<"s", "o", "u", "r", "c", "e", "T", "o", "k", "e", "n">>),
               symbolOf(config, <<"t", "o", "T", "o", "k", "e", "n">>, <<"d", "e", "s", "t", "i", "n", "a", "t", "i", "o", "n", "T", "o", "k", "e", "n">>),
               trim(IF Get(config, <<"a", "m", "o", "u", "n", "t">>) # JUndefined THEN Get(config, <<"a", "m", "o", "u", "n", "t">>).s
                    ELSE <<"0">>),
               warnings)

swapConfig(config, warnings) == swapConfigFrom(swapChainAndProvider(config), warnings)

\* The backend types whose config is the hints as given (default: break).
PlainConfigTypes ==
    {"API", "SLACK", "EMAIL", "SWITCH", "WALLET", "LENDING", "LLM_TRANSFORM", "TIME_BLOCK"}

buildBaseConfigForBlock(backendType, purpose, configHints, chatId, warnings, telegramConnectionId) ==
    CASE backendType = "TELEGRAM" ->
             telegramConfig(configHints, purpose, chatId, warnings, telegramConnectionId)
      [] backendType \in {"CHAINLINK_PRICE_ORACLE", "PYTH_PRICE_ORACLE", "PRICE_ORACLE"} ->
             oracleConfig(configHints, backendType, purpose, configHints, warnings)
      [] backendType = "SWAP" ->
             swapConfig(configHints, warnings)
      [] backendType = "IF" ->
             ifConfig(configHints, warnings)
      [] backendType \in PlainConfigTypes ->
             Built(configHints, warnings)

BlockDef(blockId) == PLANNER_BLOCKS[CHOOSE i \in DOMAIN PLANNER_BLOCKS : PLANNER_BLOCKS[i].id = blockId]

\* The node of a step; built is what buildBaseConfigForBlock returned.
NodeOf(step, index, nodeId, backendType, built) ==
    [ok |-> TRUE,
     node |-> [id |-> nodeId,
               type |-> backendType,
               description |-> step.purpose,
               config |-> built.config,
               position |-> [x |-> 280 + index * 260, y |-> 0],
               blockId |-> step.blockId],
     warnings |-> built.warnings]

\* The node of a step and the warnings after it; nodeId is randomUUID().
compileStepToNode(step, index, chatId, warnings, telegramConnectionId, nodeId) ==
    IF step.blockId \notin VALID_PLANNER_BLOCK_IDS
    THEN [ok |-> FALSE, error |-> "Unknown planner blockId", step |-> index + 1]
    ELSE NodeOf(step, index, nodeId, BlockDef(step.blockId).backendType,
                buildBaseConfigForBlock(BlockDef(step.blockId).backendType, step.purpose,
                                        HintsOf(step), chatId, warnings,
                                        telegramConnectionId))

\* stepsToCompile.map(compileStepToNode), the index-th step first; uuid is
\* the number of the next identifier.
RECURSIVE compileSteps(_, _, _, _, _, _, _)
compileSteps(steps, index, chatId, telegramConnectionId, uuid, nodes, warnings) ==
    IF index >= Len(steps) THEN [ok |-> TRUE, nodes |-> nodes, warnings |-> warnings]
    ELSE With(compileStepToNode(steps[index + 1], index, chatId, warnings,
                                telegramConnectionId, randomUUID(uuid)), LAMBDA r :
             IF ~r.ok THEN r
             ELSE compileSteps(steps, index + 1, chatId, telegramConnectionId, uuid + 1,
                               Append(nodes, r.node), r.warnings))

IsTriggerType(type) == type = START_NODE_TYPE \/ type = TIME_BLOCK_NODE_TYPE

IsOracleType(type) ==
    type \in {"CHAINLINK_PRICE_ORACLE", "PYTH_PRICE_ORACLE", "PRICE_ORACLE"}

\* The node after the post-pass reached it: a TELEGRAM node right after an
\* oracle node shows the oracle's price unless its message holds a template.
oraclePriceNode(node, prevNode, message) ==
    IF /\ node.type = "TELEGRAM"
       /\ IsOracleType(prevNode.type)
       /\ (message = <<>> \/ ~includes(message, <<"{", "{">>))
    THEN [node EXCEPT !.config =
             SetProp(node.config, <<"m", "e", "s", "s", "a", "g", "e">>,
                     JStr(<<"P", "r", "i", "c", "e", ":", " ", "$", "{", "{", "b", "l", "o", "c", "k", "s", ".">> \o prevNode.id \o <<".", "f", "o", "r", "m", "a", "t", "t", "e", "d", "A", "n", "s", "w", "e", "r", "}", "}">>))]
    ELSE node

withOraclePrice(stepNodes) ==
    [i \in DOMAIN stepNodes |->
        IF i = 1 THEN stepNodes[i]
        ELSE oraclePriceNode(stepNodes[i], stepNodes[i - 1],
                             StringOrEmpty(Get(stepNodes[i].config, <<"m", "e", "s", "s", "a", "g", "e">>)))]

\* previousNodeId when the loop over stepNodes reaches the i-th node.
previousNodeId_AlwaysTrigger(triggerNodeId, stepNodes, i) == triggerNodeId
previousNodeId(triggerNodeId, stepNodes, i) ==
    IF i = 1 THEN triggerNodeId ELSE stepNodes[i - 1].id

Edge(source, target) ==
    [id |-> source \o <<"-", ">">> \o target, sourceNodeId |-> source, targetNodeId |-> target]

linearEdges(triggerNodeId, stepNodes) ==
    [i \in DOMAIN stepNodes |->
        Edge(previousNodeId(triggerNodeId, stepNodes, i), stepNodes[i].id)]

triggerNodesOf(workflow) == SelectSeq(workflow.nodes, LAMBDA n : IsTriggerType(n.type))

nonTriggerNodesOf(workflow) == SelectSeq(workflow.nodes, LAMBDA n : ~IsTriggerType(n.type))

\* The error validateCompiledWorkflow throws, or "" when it returns.
validateCompiledWorkflow_NoTriggerCount(workflow) ==
    IF Len(workflow.nodes) = 0 THEN "Compiled workflow has no nodes."
    ELSE ""
validateCompiledWorkflow(workflow) ==
    IF Len(workflow.nodes) = 0 THEN "Compiled workflow has no nodes."
    ELSE IF Len(triggerNodesOf(workflow)) # 1
         THEN "Compiled workflow must contain exactly one trigger node"
    ELSE IF workflow.triggerNodeId = <<>>
            \/ ~(\E i \in DOMAIN workflow.nodes : workflow.nodes[i].id = workflow.triggerNodeId)
         THEN "Compiled workflow is missing a valid triggerNodeId."
    ELSE IF Len(nonTriggerNodesOf(workflow)) = 0
         THEN "Compiled workflow must contain at least one non-trigger node."
    ELSE IF Len(workflow.edges) < Len(nonTriggerNodesOf(workflow))
         THEN "Compiled workflow edges do not connect all nodes linearly."
    ELSE ""

\* schedule of a result without one (let schedule, never assigned)
NoSchedule == JUndefined

\* What a thrown compile leaves: the error and the identifiers taken.
CompileThrew(uuids, error) == [ok |-> FALSE, uuids |-> uuids, error |-> error]

timeBlockTriggerNode(triggerNodeId, firstStep, extracted) ==
    [id |-> triggerNodeId,
     type |-> TIME_BLOCK_NODE_TYPE,
     description |-> IF firstStep.purpose # <<>> THEN firstStep.purpose
                     ELSE <<"S", "c", "h", "e", "d", "u", "l", "e", "d", " ", "t", "r", "i", "g", "g", "e", "r", " ", "f", "o", "r", " ", "t", "h", "i", "s", " ", "w", "o", "r", "k", "f", "l", "o", "w", ".">>,
     config |-> JObj(<<Prop(<<"r", "e", "c", "u", "r", "r", "e", "n", "c", "e">>, extracted.recurrence),
                       Prop(<<"s", "t", "o", "p", "C", "o", "n", "d", "i", "t", "i", "o", "n", "s">>, extracted.stopConditions)>>),
     position |-> [x |-> 0, y |-> 0],
     blockId |-> firstStep.blockId]

startTriggerNode(triggerNodeId) ==
    [id |-> triggerNodeId,
     type |-> START_NODE_TYPE,
     description |-> <<"M", "a", "n", "u", "a", "l", " ", "t", "r", "i", "g", "g", "e", "r", " ", "f", "o", "r", " ", "t", "h", "i", "s", " ", "w", "o", "r", "k", "f", "l", "o", "w", ".">>,
     config |-> JObj(<<Prop(<<"t", "r", "i", "g", "g", "e", "r", "T", "y", "p", "e">>, JStr(<<"M", "A", "N", "U", "A", "L">>))>>),
     position |-> [x |-> 0, y |-> 0],
     blockId |-> <<>>]

\* The trigger node, the schedule and the warnings after step 1) Trigger node.
TriggerOf(triggerNodeId, firstStep, hasTimeBlockTrigger) ==
    IF hasTimeBlockTrigger
    THEN With(extractScheduleFromTimeBlockStep(firstStep, <<>>), LAMBDA extracted :
             [node |-> timeBlockTriggerNode(triggerNodeId, firstStep, extracted),
              schedule |-> [intervalSeconds |-> extracted.intervalSeconds,
                            durationSeconds |-> extracted.durationSeconds],
              warnings |-> extracted.warnings])
    ELSE [node |-> startTriggerNode(triggerNodeId),
          schedule |-> NoSchedule,
          warnings |-> <<>>]

WorkflowOf(plan, trigger, stepNodes) ==
    [name |-> IF plan.workflowName # <<>> THEN plan.workflowName
              ELSE <<"U", "n", "t", "i", "t", "l", "e", "d", " ", "W", "o", "r", "k", "f", "l", "o", "w">>,
     description |-> IF plan.description # <<>> THEN plan.description
                     ELSE <<"G", "e", "n", "e", "r", "a", "t", "e", "d", " ", "f", "r", "o", "m", " ", "n", "a", "t", "u", "r", "a", "l", " ", "l", "a", "n", "g", "u", "a", "g", "e", " ", "r", "e", "q", "u", "e", "s", "t", ".">>,
     nodes |-> <<trigger.node>> \o stepNodes,
     edges |-> linearEdges(trigger.node.id, stepNodes),
     triggerNodeId |-> trigger.node.id]

\* validateCompiledWorkflow(workflow); return { workflow, warnings, schedule }
ValidatedResult(workflow, warnings, schedule, error) ==
    IF error # "" THEN CompileThrew(Len(workflow.nodes), error)
    ELSE [ok |-> TRUE, uuids |-> Len(workflow.nodes),
          workflow |-> workflow, warnings |-> warnings, schedule |-> schedule]

\* Steps 2) and 3) and the validation, after the trigger node.
CompileAfterTrigger(options, uuid, stepsToCompile, trigger) ==
    With(compileSteps(stepsToCompile, 0, options.chatId, options.telegramConnectionId,
                      uuid + 1, <<>>, trigger.warnings), LAMBDA compiled :
        IF ~compiled.ok
        THEN [ok |-> FALSE, uuids |-> compiled.step, error |-> compiled.error,
              step |-> compiled.step]
        ELSE With(WorkflowOf(options.plan, trigger, withOraclePrice(compiled.nodes)),
                  LAMBDA workflow :
                 ValidatedResult(workflow, compiled.warnings, trigger.schedule,
                                 validateCompiledWorkflow(workflow))))

CompileFrom_NoDownstreamCheck(options, uuid, hasTimeBlockTrigger, stepsToCompile) ==
    CompileAfterTrigger(options, uuid, stepsToCompile,
                        TriggerOf(randomUUID(uuid), options.plan.steps[1],
                                  hasTimeBlockTrigger))
CompileFrom(options, uuid, hasTimeBlockTrigger, stepsToCompile) ==
    IF Len(stepsToCompile) = 0
    THEN CompileThrew(0, "Cannot compile workflow: time-block trigger requires at least one downstream action step.")
    ELSE CompileAfterTrigger(options, uuid, stepsToCompile,
                             TriggerOf(randomUUID(uuid), options.plan.steps[1],
                                       hasTimeBlockTrigger))

\* The result returned or the error thrown; uuid is the number of the next
\* identifier randomUUID returns, uuids the number of identifiers taken.
compilePlannerResultToWorkflow(options, uuid) ==
    IF Len(options.plan.steps) = 0
    THEN CompileThrew(0, "Cannot compile workflow: planner returned no steps.")
    ELSE CompileFrom(options, uuid,
                     options.plan.steps[1].blockId = <<"t", "i", "m", "e", "-", "b", "l", "o", "c", "k">>,
                     IF options.plan.steps[1].blockId = <<"t", "i", "m", "e", "-", "b", "l", "o", "c", "k">>
                     THEN Tail(options.plan.steps) ELSE options.plan.steps)

(***************************************************************************)
(* The plans the compiler is run on.                                       *)
(***************************************************************************)
\* Longest plan.
MaxPlanSteps == 3

Step(blockId, purpose, configHints) ==
    [blockId |-> blockId, purpose |-> purpose, configHints |-> configHints]

TimeBlockHints ==
    { <<>>,
      <<Prop(<<"i", "n", "t", "e", "r", "v", "a", "l", "S", "e", "c", "o", "n", "d", "s">>, <<"6", "0">>), Prop(<<"d", "u", "r", "a", "t", "i", "o", "n", "S", "e", "c", "o", "n", "d", "s">>, <<"3", "6", "0", "0">>)>>,
      <<Prop(<<"i", "n", "t", "e", "r", "v", "a", "l", "S", "e", "c", "o", "n", "d", "s">>, <<"0">>), Prop(<<"d", "u", "r", "a", "t", "i", "o", "n", "S", "e", "c", "o", "n", "d", "s">>, <<"1", ".", "5">>)>>,
      <<Prop(<<"i", "n", "t", "e", "r", "v", "a", "l", "S", "e", "c", "o", "n", "d", "s">>, <<" ", "9", "0", " ">>), Prop(<<"d", "u", "r", "a", "t", "i", "o", "n", "S", "e", "c", "o", "n", "d", "s">>, <<"s", "o", "o", "n">>),
        Prop(<<"c", "r", "o", "n", "E", "x", "p", "r", "e", "s", "s", "i", "o", "n">>, <<"0", " ", "*", " ", "*", " ", "*", " ", "*">>)>>,
      <<Prop(<<"i", "n", "t", "e", "r", "v", "a", "l", "S", "e", "c", "o", "n", "d", "s">>, <<"-", "5">>), Prop(<<"d", "u", "r", "a", "t", "i", "o", "n", "S", "e", "c", "o", "n", "d", "s">>, <<"6", "0", ".", "0">>),
        Prop(<<"r", "e", "c", "u", "r", "r", "e", "n", "c", "e", "T", "y", "p", "e">>, <<"c", "r", "o", "n">>)>> }

TelegramHints ==
    { <<>>,
      <<Prop(<<"m", "e", "s", "s", "a", "g", "e">>, <<"E", "T", "H", " ", "i", "s", " ", "a", "t", " ", "{", "{", "p", "r", "i", "c", "e", "}", "}">>)>>,
      <<Prop(<<"t", "e", "x", "t">>, <<" ", "h", "i", " ">>), Prop(<<"c", "o", "n", "n", "e", "c", "t", "i", "o", "n", "I", "d">>, <<"c", "o", "n", "n", "-", "9">>), Prop(<<"c", "h", "a", "t", "I", "d">>, <<"7", "7">>)>> }

CompileSteps ==
    {Step(<<"t", "i", "m", "e", "-", "b", "l", "o", "c", "k">>, <<"E", "v", "e", "r", "y", " ", "m", "i", "n", "u", "t", "e">>, h) : h \in TimeBlockHints}
    \cup {Step(<<"t", "e", "l", "e", "g", "r", "a", "m">>, <<"N", "o", "t", "i", "f", "y", " ", "m", "e">>, h) : h \in TelegramHints}
    \cup { Step(<<"c", "h", "a", "i", "n", "l", "i", "n", "k">>, <<"R", "e", "a", "d", " ", "t", "h", "e", " ", "p", "r", "i", "c", "e">>, <<>>),
           Step(<<"c", "h", "a", "i", "n", "l", "i", "n", "k">>, <<"R", "e", "a", "d", " ", "t", "h", "e", " ", "p", "r", "i", "c", "e">>,
                <<Prop(<<"f", "e", "e", "d">>, <<"b", "t", "c", " ", "/", " ", "u", "s", "d">>), Prop(<<"c", "h", "a", "i", "n">>, <<"a", "r", "b", "i", "t", "r", "u", "m">>)>>),
           Step(<<"p", "y", "t", "h">>, <<"R", "e", "a", "d", " ", "t", "h", "e", " ", "p", "r", "i", "c", "e">>, <<Prop(<<"o", "u", "t", "p", "u", "t">>, <<"p", "r", "i", "c", "e">>)>>),
           Step(<<"a", "p", "i">>, <<>>, <<>>),
           Step(<<"t", "e", "l", "e", "p", "o", "r", "t">>, <<"M", "o", "v", "e">>, <<>>) }

PlanOf(steps) ==
    [workflowName |-> <<"P", "r", "i", "c", "e", " ", "a", "l", "e", "r", "t">>,
     description |-> <<"G", "e", "n", "e", "r", "a", "t", "e", "d", " ", "w", "o", "r", "k", "f", "l", "o", "w", " ", "p", "l", "a", "n">>,
     steps |-> steps,
     missingInputs |-> <<>>,
     notes |-> <<>>]

IfHints ==
    { <<>>,
      <<Prop(<<"c", "o", "n", "d", "i", "t", "i", "o", "n">>, <<"E", "T", "H", "/", "U", "S", "D", " ", "<", " ", "1", "7", "5", "0">>)>>,
      <<Prop(<<"c", "o", "n", "d", "i", "t", "i", "o", "n">>, <<"p", "r", "i", "c", "e", " ", ">", "=", " ", "1", "0">>)>>,
      <<Prop(<<"c", "o", "n", "d", "i", "t", "i", "o", "n">>, <<"c", "o", "u", "n", "t", " ", ">", " ", "3">>)>>,
      <<Prop(<<"c", "o", "n", "d", "i", "t", "i", "o", "n">>, <<" ", "a", "<", "=", "b", " ", "<", "=", " ", "c", " ">>)>>,
      <<Prop(<<"c", "o", "n", "d", "i", "t", "i", "o", "n">>, <<"b", "a", "l", "a", "n", "c", "e", " ", "!", "=", " ", "0">>)>>,
      <<Prop(<<"c", "o", "n", "d", "i", "t", "i", "o", "n">>, <<"E", "T", "H", "U", "S", "D", " ", "=", "=", " ", "5">>)>>,
      <<Prop(<<"c", "o", "n", "d", "i", "t", "i", "o", "n">>, <<"x", " ", "=", " ", "1">>)>>,
      <<Prop(<<"c", "o", "n", "d", "i", "t", "i", "o", "n">>, <<"w", "h", "e", "n", " ", "i", "t", " ", "d", "i", "p", "s">>)>>,
      <<Prop(<<"c", "o", "n", "d", "i", "t", "i", "o", "n">>, <<"s", "o", "o", "n">>), Prop(<<"l", "e", "f", "t", "P", "a", "t", "h">>, <<"B", "T", "C", "/", "U", "S", "D", " ", "p", "r", "i", "c", "e">>),
        Prop(<<"o", "p", "e", "r", "a", "t", "o", "r">>, <<"g", "t">>), Prop(<<"r", "i", "g", "h", "t", "V", "a", "l", "u", "e">>, <<"3">>)>> }

IfSteps == {Step(<<"i", "f">>, <<"C", "h", "e", "c", "k", " ", "t", "h", "e", " ", "p", "r", "i", "c", "e">>, h) : h \in IfHints}

SwapHints ==
    { <<>>,
      <<Prop(<<"f", "r", "o", "m", "T", "o", "k", "e", "n">>, <<"U", "S", "D", "C">>), Prop(<<"t", "o", "T", "o", "k", "e", "n">>, <<"W", "E", "T", "H">>), Prop(<<"a", "m", "o", "u", "n", "t">>, <<"1", ".", "5">>),
        Prop(<<"c", "h", "a", "i", "n">>, <<"a", "r", "b", "i", "t", "r", "u", "m">>)>>,
      <<Prop(<<"f", "r", "o", "m", "T", "o", "k", "e", "n">>, <<"w", "e", "t", "h">>), Prop(<<"t", "o", "T", "o", "k", "e", "n">>, <<"u", "s", "d", "c">>), Prop(<<"a", "m", "o", "u", "n", "t">>, <<"0", ".", "1">>)>>,
      <<Prop(<<"f", "r", "o", "m", "T", "o", "k", "e", "n">>, <<"U", "S", "D", "C">>), Prop(<<"t", "o", "T", "o", "k", "e", "n">>, <<"W", "E", "T", "H">>),
        Prop(<<"a", "m", "o", "u", "n", "t">>, <<"1", ".", "2", "3", "4", "5", "6", "7", "8">>)>>,
      <<Prop(<<"f", "r", "o", "m", "T", "o", "k", "e", "n">>, <<"W", "E", "T", "H">>), Prop(<<"t", "o", "T", "o", "k", "e", "n">>, <<"U", "S", "D", "C">>), Prop(<<"a", "m", "o", "u", "n", "t">>, <<"2">>)>>,
      <<Prop(<<"f", "r", "o", "m", "T", "o", "k", "e", "n">>, <<"W", "E", "T", "H">>), Prop(<<"t", "o", "T", "o", "k", "e", "n">>, <<"U", "S", "D", "C">>), Prop(<<"a", "m", "o", "u", "n", "t">>, <<"-", "2">>)>>,
      <<Prop(<<"f", "r", "o", "m", "T", "o", "k", "e", "n">>, <<"D", "O", "G", "E">>), Prop(<<"t", "o", "T", "o", "k", "e", "n">>, <<"W", "E", "T", "H">>), Prop(<<"a", "m", "o", "u", "n", "t">>, <<"a", " ", "l", "o", "t">>),
        Prop(<<"c", "h", "a", "i", "n">>, <<"m", "a", "r", "s">>)>>,
      <<Prop(<<"s", "o", "u", "r", "c", "e", "T", "o", "k", "e", "n">>, <<"u", "s", "d", "c">>), Prop(<<"d", "e", "s", "t", "i", "n", "a", "t", "i", "o", "n", "T", "o", "k", "e", "n">>, <<"w", "e", "t", "h">>),
        Prop(<<"a", "m", "o", "u", "n", "t">>, <<" ", "1", "0", " ", "U", "S", "D", "C">>), Prop(<<"c", "h", "a", "i", "n">>, <<"b", "a", "s", "e">>), Prop(<<"p", "r", "o", "v", "i", "d", "e", "r">>, <<"L", "I", "F", "I">>),
        Prop(<<"s", "w", "a", "p", "T", "y", "p", "e">>, <<"E", "X", "A", "C", "T", "_", "O", "U", "T", "P", "U", "T">>),
        Prop(<<"w", "a", "l", "l", "e", "t", "A", "d", "d", "r", "e", "s", "s">>, <<"0", "x", "8", "2", "a", "F", "4", "9", "4", "4", "7", "D", "8", "a", "0", "7", "e", "3", "b", "d", "9", "5", "B", "D", "0", "d", "5", "6", "f", "3", "5", "2", "4", "1", "5", "2", "3", "f", "B", "a", "b", "1">>)>> }

SwapSteps ==
    {Step(<<"u", "n", "i", "s", "w", "a", "p">>, <<"S", "w", "a", "p", " ", "t", "h", "e", " ", "t", "o", "k", "e", "n", "s">>, h) : h \in SwapHints}
    \cup {Step(<<"o", "n", "e", "i", "n", "c", "h">>, <<"S", "w", "a", "p", " ", "t", "h", "e", " ", "t", "o", "k", "e", "n", "s">>, <<Prop(<<"a", "m", "o", "u", "n", "t">>, <<"0", ".", "2", "5">>)>>)}

OracleSteps ==
    { Step(<<"c", "h", "a", "i", "n", "l", "i", "n", "k">>, <<"R", "e", "a", "d">>,
           <<Prop(<<"f", "e", "e", "d">>, <<"D", "O", "G", "E", "/", "U", "S", "D">>),
             Prop(<<"c", "h", "a", "i", "n">>, <<"m", "a", "r", "s">>)>>) }

\* The plans with a step of the given set: alone, after a time block, and
\* between an oracle and a message.
PlansAround(steps) ==
    {PlanOf(<<s>>) : s \in steps}
    \cup {PlanOf(<<Step(<<"t", "i", "m", "e", "-", "b", "l", "o", "c", "k">>, <<"E", "v", "e", "r", "y", " ", "m", "i", "n", "u", "t", "e">>, <<>>), s>>) : s \in steps}
    \cup {PlanOf(<<Step(<<"c", "h", "a", "i", "n", "l", "i", "n", "k">>, <<"R", "e", "a", "d", " ", "t", "h", "e", " ", "p", "r", "i", "c", "e">>, <<>>), s,
                   Step(<<"t", "e", "l", "e", "g", "r", "a", "m">>, <<"N", "o", "t", "i", "f", "y", " ", "m", "e">>, <<>>)>>) : s \in steps}

CompilePlans ==
    {PlanOf(steps) : steps \in SeqsUpTo(CompileSteps, MaxPlanSteps)}
    \cup PlansAround(IfSteps)
    \cup PlansAround(SwapSteps)
    \cup PlansAround(OracleSteps)

CompileInputs ==
    {[plan |-> plan, chatId |-> c[1], telegramConnectionId |-> c[2]] :
        plan \in CompilePlans,
        c \in {<<JUndefined, JUndefined>>, <<JStr(<<"c", "h", "a", "t", "-", "1">>), JStr(<<"c", "o", "n", "n", "-", "1">>)>>}}

CompileCall ==
    /\ cmpPc = "call"
    /\ cmpResult' = compilePlannerResultToWorkflow(cmpOptions, nextUuid)
    /\ nextUuid' = nextUuid + cmpResult'.uuids
    /\ cmpPc' = "done"
    /\ UNCHANGED cmpOptions

CompileInit ==
    /\ MonitorOff
    /\ ClientsOff
    /\ SanOff
    /\ SvcOff
    /\ nextUuid = 1
    /\ cmpPc = "call"
    /\ cmpOptions \in CompileInputs
    /\ cmpResult = JUndefined

CompileNext == CompileCall /\ UNCHANGED <<monitorVars, clientVars, sanVars, svcVars>>

SpecCompile == CompileInit /\ [][CompileNext]_vars

(***************************************************************************)
(* Claims about the compiled workflow.                                     *)
(***************************************************************************)
IsTimeBlockStep(step) == step.blockId = <<"t", "i", "m", "e", "-", "b", "l", "o", "c", "k">>

\* The steps after an optional leading time-block step.
ActionStepsOf(plan) ==
    IF plan.steps # <<>> /\ IsTimeBlockStep(plan.steps[1]) THEN Tail(plan.steps)
    ELSE plan.steps

\* A valid plan of an optional leading time-block step and N >= 1 action
\* steps, none of them a time-block step.
LinearPlan(plan) ==
    /\ \A i \in DOMAIN plan.steps : plan.steps[i].blockId \in VALID_PLANNER_BLOCK_IDS
    /\ Len(ActionStepsOf(plan)) >= 1
    /\ \A i \in DOMAIN ActionStepsOf(plan) : ~IsTimeBlockStep(ActionStepsOf(plan)[i])

\* One trigger node, then the action nodes of the steps in plan order.
NodesFollowPlan(workflow, actionSteps) ==
    /\ Len(workflow.nodes) = 1 + Len(actionSteps)
    /\ IsTriggerType(workflow.nodes[1].type)
    /\ workflow.triggerNodeId = workflow.nodes[1].id
    /\ \A i \in DOMAIN actionSteps :
          /\ ~IsTriggerType(workflow.nodes[i + 1].type)
          /\ workflow.nodes[i + 1].blockId = actionSteps[i].blockId
          /\ workflow.nodes[i + 1].type = BlockDef(actionSteps[i].blockId).backendType
          /\ workflow.nodes[i + 1].description = actionSteps[i].purpose

\* The edges are the chain trigger -> step 1 -> ... -> step N.
EdgesFormChain(workflow, n) ==
    /\ Len(workflow.edges) = n
    /\ \A i \in 1..n :
          /\ workflow.edges[i].sourceNodeId = workflow.nodes[i].id
          /\ workflow.edges[i].targetNodeId = workflow.nodes[i + 1].id
          /\ workflow.edges[i].id =
                workflow.nodes[i].id \o <<"-", ">">> \o workflow.nodes[i + 1].id

PositiveIntegers(schedule) ==
    /\ schedule # NoSchedule
    /\ schedule.intervalSeconds \in Nat \ {0}
    /\ schedule.durationSeconds \in Nat \ {0}

TriggerMatchesFirstStep(result, plan) ==
    IF IsTimeBlockStep(plan.steps[1])
    THEN /\ result.workflow.nodes[1].type = TIME_BLOCK_NODE_TYPE
         /\ PositiveIntegers(result.schedule)
    ELSE /\ result.workflow.nodes[1].type = START_NODE_TYPE
         /\ result.schedule = NoSchedule

\* C9: a valid plan of an optional leading time-block step and N >= 1 action
\* steps compiles to one trigger node, the N action nodes in plan order and
\* the N edges of the chain trigger -> step 1 -> ... -> step N, each edge id
\* being source id, "->", target id; the trigger is TIME_BLOCK with a schedule
\* of positive integers when the first step is the time-block step, START
\* with no schedule otherwise.
C9_LinearChain ==
    (cmpPc = "done" /\ LinearPlan(cmpOptions.plan)) =>
        /\ cmpResult.ok
        /\ NodesFollowPlan(cmpResult.workflow, ActionStepsOf(cmpOptions.plan))
        /\ EdgesFormChain(cmpResult.workflow, Len(ActionStepsOf(cmpOptions.plan)))
        /\ TriggerMatchesFirstStep(cmpResult, cmpOptions.plan)

\* A scheduled plan of three action steps has been compiled with the
\* interval its time-block step asked for.
C9_Witness ==
    /\ cmpPc = "done"
    /\ LinearPlan(cmpOptions.plan)
    /\ IsTimeBlockStep(cmpOptions.plan.steps[1])
    /\ Len(cmpOptions.plan.steps) = MaxPlanSteps
    /\ cmpResult.ok
    /\ cmpResult.schedule.intervalSeconds = 60
    /\ Len(cmpResult.workflow.edges) = MaxPlanSteps - 1

NodeIdsDistinct(workflow) ==
    \A i, j \in DOMAIN workflow.nodes :
        workflow.nodes[i].id = workflow.nodes[j].id => i = j

HasIncomingEdge(workflow, node) ==
    \E e \in DOMAIN workflow.edges :
        /\ workflow.edges[e].targetNodeId = node.id
        /\ \E s \in DOMAIN workflow.nodes :
              workflow.nodes[s].id = workflow.edges[e].sourceNodeId

GraphInvariants(workflow) ==
    /\ Len(triggerNodesOf(workflow)) = 1
    /\ workflow.triggerNodeId = triggerNodesOf(workflow)[1].id
    /\ Len(nonTriggerNodesOf(workflow)) >= 1
    /\ NodeIdsDistinct(workflow)
    /\ \A i \in DOMAIN workflow.nodes :
          ~IsTriggerType(workflow.nodes[i].type) =>
              HasIncomingEdge(workflow, workflow.nodes[i])

\* C10: every workflow the compiler returns has exactly one trigger node,
\* whose id is triggerNodeId, at least one other node, distinct node ids, and
\* an edge into every non-trigger node from a node of the workflow.
C10_GraphInvariants ==
    (cmpPc = "done" /\ cmpResult.ok) => GraphInvariants(cmpResult.workflow)

\* A workflow of a trigger and several action nodes has been returned.
C10_Witness ==
    /\ cmpPc = "done"
    /\ cmpResult.ok
    /\ Len(cmpResult.workflow.nodes) = MaxPlanSteps + 1
    /\ cmpResult.workflow.nodes[1].type = START_NODE_TYPE

(***************************************************************************)
(* Orchestration service (core/agent-service).                             *)
(***************************************************************************)
\* A thrown Error: the function whose throw statement made it and its
\* message (a string literal of the program, or the text a client built).
Thrown(by, message) == [by |-> by, message |-> message]

NotConfigured ==
    Thrown("execute", "Workflow execution is not configured (missing backend). Set BACKEND_BASE_URL to use execute.")
NoPlanToExecute ==
    Thrown("execute", "No plan to execute. Provide a prompt or plan, or run plan first.")
PlanHasMissingInputs ==
    Thrown("execute", "Cannot execute: plan has missing inputs. Add the missing details and plan again.")
TelegramNotLinked ==
    Thrown("execute", "Telegram connection is not linked for this chat. Send your verify-... code first, then run execute again.")
TelegramRequired ==
    Thrown("execute", "This workflow requires a Telegram connection. Use the Telegram interface to execute it.")
\* d.field read on a null or undefined element of details
TypeErrorOnField == Thrown("TypeError", "Cannot read properties of null (reading 'field')")

\* The call returned value / threw error.
Ok(value) == [ok |-> TRUE, value |-> value]
Failed(error) == [ok |-> FALSE, error |-> error]

\* sessionKey(channel, channelId)
sessionKey_ChannelOnly(channel, channelId) == channel
sessionKey(channel, channelId) == channel \o <<":">> \o channelId

\* sessionStore.get(key)
SessionGet(store, key) == IF key \in DOMAIN store THEN store[key] ELSE JUndefined

\* sessionStore.set(key, session)
SessionSet(store, key, session) ==
    [k \in DOMAIN store \cup {key} |-> IF k = key THEN session ELSE store[k]]

\* An AgentSession; JUndefined stands for a property that is absent.
Session(userId, lastPlan, lastWorkflowId, lastExecutionId, lastTimeBlockId) ==
    [userId |-> userId, lastPlan |-> lastPlan, lastWorkflowId |-> lastWorkflowId,
     lastExecutionId |-> lastExecutionId, lastTimeBlockId |-> lastTimeBlockId]

\* w is in s at position i.
StartsAt(s, i, w) ==
    i >= 1 /\ i + Len(w) - 1 <= Len(s) /\ SubSeq(s, i, i + Len(w) - 1) = w

\* The first position from i on that holds no white space.
RECURSIVE SkipSpaces(_, _)
SkipSpaces(s, i) == IF i <= Len(s) /\ IsSpace(s[i]) THEN SkipSpaces(s, i + 1) ELSE i

\* The first position from i on that holds no digit.
RECURSIVE SkipDigits(_, _)
SkipDigits(s, i) == IF i <= Len(s) /\ IsDigit(s[i]) THEN SkipDigits(s, i + 1) ELSE i

\* WorkflowClient.createWorkflow on a response that is not ok.
createWorkflowError(status, text) ==
    Thrown("createWorkflow",
           <<"F", "a", "i", "l", "e", "d", " ", "t", "o", " ", "c", "r", "e", "a", "t", "e", " ", "w", "o", "r", "k", "f", "l", "o", "w", ":", " ">> \o DecimalDigits(status) \o <<" ">> \o text)

\* createWorkflow on a response body without success and an id.
createWorkflowInvalid ==
    Thrown("createWorkflow", <<"B", "a", "c", "k", "e", "n", "d", " ", "r", "e", "s", "p", "o", "n", "s", "e", " ", "f", "o", "r", " ", "c", "r", "e", "a", "t", "e", " ", "w", "o", "r", "k", "f", "l", "o", "w", " ", "i", "s", " ", "i", "n", "v", "a", "l", "i", "d", ".">>)

\* The pattern of tryPatchWorkflowPayloadFromValidationError matched with
\* "400" at position k of raw: white space and at least one more character
\* follow. The position after "400", or 0.
StatusAt(raw, k) ==
    IF StartsAt(raw, k, <<"4", "0", "0">>) /\ k + 4 <= Len(raw) /\ IsSpace(raw[k + 3])
    THEN k + 3 ELSE 0

\* The same with "Failed to create workflow:" at position i.
CreateFailureAt(raw, i) ==
    IF StartsAt(raw, i, <<"F", "a", "i", "l", "e", "d", " ", "t", "o", " ", "c", "r", "e", "a", "t", "e", " ", "w", "o", "r", "k", "f", "l", "o", "w", ":">>)
    THEN StatusAt(raw, SkipSpaces(raw, i + Len(<<"F", "a", "i", "l", "e", "d", " ", "t", "o", " ", "c", "r", "e", "a", "t", "e", " ", "w", "o", "r", "k", "f", "l", "o", "w", ":">>)))
    ELSE 0

\* raw.match(pattern): the positions the pattern matches at.
MatchesOf(raw) == {i \in DOMAIN raw : CreateFailureAt(raw, i) # 0}

\* match[1].trim() of the leftmost match: the text after the status.
MatchedBody(raw, at) ==
    trim(from(raw, CreateFailureAt(raw, CHOOSE i \in at : \A j \in at : i <= j)))

\* JSON.parse on the response bodies of this model; it throws on every other
\* text.
ErrorBodies ==
    { <<<<"{", "\"", "e", "r", "r", "o", "r", "\"", ":", "{", "\"", "d", "e", "t", "a", "i", "l", "s", "\"", ":", "[", "{", "\"", "f", "i", "e", "l", "d", "\"", ":", "\"", "n", "o", "d", "e", "s", ".", "0", ".", "c", "o", "n", "f", "i", "g", ".", "c", "o", "n", "n", "e", "c", "t", "i", "o", "n", "I", "d", "\"", "}", "]", "}", "}">>,
        JObj(<<Prop(<<"e", "r", "r", "o", "r">>, JObj(<<Prop(<<"d", "e", "t", "a", "i", "l", "s">>,
            JArr(<<JObj(<<Prop(<<"f", "i", "e", "l", "d">>, JStr(<<"n", "o", "d", "e", "s", ".", "0", ".", "c", "o", "n", "f", "i", "g", ".", "c", "o", "n", "n", "e", "c", "t", "i", "o", "n", "I", "d">>))>>)>>))>>))>>)>>,
      <<<<"{", "\"", "e", "r", "r", "o", "r", "\"", ":", "{", "\"", "d", "e", "t", "a", "i", "l", "s", "\"", ":", "[", "{", "\"", "f", "i", "e", "l", "d", "\"", ":", "\"", "n", "o", "d", "e", "s", ".", "2", ".", "c", "o", "n", "f", "i", "g", ".", "c", "o", "n", "n", "e", "c", "t", "i", "o", "n", "I", "d", "\"", "}", "]", "}", "}">>,
        JObj(<<Prop(<<"e", "r", "r", "o", "r">>, JObj(<<Prop(<<"d", "e", "t", "a", "i", "l", "s">>,
            JArr(<<JObj(<<Prop(<<"f", "i", "e", "l", "d">>, JStr(<<"n", "o", "d", "e", "s", ".", "2", ".", "c", "o", "n", "f", "i", "g", ".", "c", "o", "n", "n", "e", "c", "t", "i", "o", "n", "I", "d">>))>>)>>))>>))>>)>>,
      <<<<"{", "\"", "e", "r", "r", "o", "r", "\"", ":", "{", "\"", "d", "e", "t", "a", "i", "l", "s", "\"", ":", "[", "{", "\"", "c", "o", "d", "e", "\"", ":", "\"", "x", "\"", "}", ",", "{", "\"", "f", "i", "e", "l", "d", "\"", ":", "\"", "n", "o", "d", "e", "s", ".", "1", "2", ".", "c", "o", "n", "f", "i", "g", ".", "c", "o", "n", "n", "e", "c", "t", "i", "o", "n", "I", "d", "\"", "}", "]", "}", "}">>,
        JObj(<<Prop(<<"e", "r", "r", "o", "r">>, JObj(<<Prop(<<"d", "e", "t", "a", "i", "l", "s">>,
            JArr(<<JObj(<<Prop(<<"c", "o", "d", "e">>, JStr(<<"x">>))>>),
                   JObj(<<Prop(<<"f", "i", "e", "l", "d">>, JStr(<<"n", "o", "d", "e", "s", ".", "1", "2", ".", "c", "o", "n", "f", "i", "g", ".", "c", "o", "n", "n", "e", "c", "t", "i", "o", "n", "I", "d">>))>>)>>))>>))>>)>>,
      <<<<"{", "\"", "e", "r", "r", "o", "r", "\"", ":", "{", "\"", "d", "e", "t", "a", "i", "l", "s", "\"", ":", "[", "{", "\"", "f", "i", "e", "l", "d", "\"", ":", "\"", "n", "o", "d", "e", "s", ".", "1", ".", "c", "o", "n", "f", "i", "g", ".", "c", "h", "a", "t", "I", "d", "\"", "}", "]", "}", "}">>,
        JObj(<<Prop(<<"e", "r", "r", "o", "r">>, JObj(<<Prop(<<"d", "e", "t", "a", "i", "l", "s">>,
            JArr(<<JObj(<<Prop(<<"f", "i", "e", "l", "d">>, JStr(<<"n", "o", "d", "e", "s", ".", "1", ".", "c", "o", "n", "f", "i", "g", ".", "c", "h", "a", "t", "I", "d">>))>>)>>))>>))>>)>>,
      <<<<"{", "\"", "e", "r", "r", "o", "r", "\"", ":", "{", "\"", "d", "e", "t", "a", "i", "l", "s", "\"", ":", "[", "{", "\"", "f", "i", "e", "l", "d", "\"", ":", "\"", "n", "o", "d", "e", "s", ".", "c", "o", "n", "f", "i", "g", ".", "c", "o", "n", "n", "e", "c", "t", "i", "o", "n", "I", "d", "\"", "}", "]", "}", "}">>,
        JObj(<<Prop(<<"e", "r", "r", "o", "r">>, JObj(<<Prop(<<"d", "e", "t", "a", "i", "l", "s">>,
            JArr(<<JObj(<<Prop(<<"f", "i", "e", "l", "d">>, JStr(<<"n", "o", "d", "e", "s", ".", "c", "o", "n", "f", "i", "g", ".", "c", "o", "n", "n", "e", "c", "t", "i", "o", "n", "I", "d">>))>>)>>))>>))>>)>>,
      <<<<"{", "\"", "e", "r", "r", "o", "r", "\"", ":", "{", "\"", "d", "e", "t", "a", "i", "l", "s", "\"", ":", "[", "n", "u", "l", "l", "]", "}", "}">>,
        JObj(<<Prop(<<"e", "r", "r", "o", "r">>, JObj(<<Prop(<<"d", "e", "t", "a", "i", "l", "s">>, JArr(<<JNull>>))>>))>>)>>,
      <<<<"{", "\"", "e", "r", "r", "o", "r", "\"", ":", "{", "\"", "d", "e", "t", "a", "i", "l", "s", "\"", ":", "\"", "c", "o", "n", "n", "e", "c", "t", "i", "o", "n", "I", "d", "\"", "}", "}">>,
        JObj(<<Prop(<<"e", "r", "r", "o", "r">>, JObj(<<Prop(<<"d", "e", "t", "a", "i", "l", "s">>, JStr(<<"c", "o", "n", "n", "e", "c", "t", "i", "o", "n", "I", "d">>))>>))>>)>>,
      <<<<"{", "\"", "s", "u", "c", "c", "e", "s", "s", "\"", ":", "f", "a", "l", "s", "e", "}">>, JObj(<<Prop(<<"s", "u", "c", "c", "e", "s", "s">>, JBool(FALSE))>>)>> }

\* The field names a node's config.connectionId: "nodes.", one digit or
\* more, ".config.connectionId", anywhere in it.
ConnectionIdFieldAt(field, i) ==
    /\ StartsAt(field, i, <<"n", "o", "d", "e", "s", ".">>)
    /\ SkipDigits(field, i + Len(<<"n", "o", "d", "e", "s", ".">>)) > i + Len(<<"n", "o", "d", "e", "s", ".">>)
    /\ StartsAt(field, SkipDigits(field, i + Len(<<"n", "o", "d", "e", "s", ".">>)), <<".", "c", "o", "n", "f", "i", "g", ".", "c", "o", "n", "n", "e", "c", "t", "i", "o", "n", "I", "d">>)

IsConnectionIdField(field) == \E i \in DOMAIN field : ConnectionIdFieldAt(field, i)

\* typeof d.field === 'string' && the pattern matches d.field
IsConnectionIdDetail(d) ==
    Get(d, <<"f", "i", "e", "l", "d">>).t = "string" /\ IsConnectionIdField(Get(d, <<"f", "i", "e", "l", "d">>).s)

\* Reading d.field throws.
HasNoProperties(d) == d.t \in {"null", "undefined"}

\* details.some(...): "true", "false", or "throws" when an element without
\* properties comes before every detail that names a connectionId.
someConnectionIdError(details) ==
    IF \E m \in DOMAIN details :
          /\ IsConnectionIdDetail(details[m])
          /\ \A n \in 1..(m - 1) : ~HasNoProperties(details[n])
    THEN "true"
    ELSE IF \E n \in DOMAIN details : HasNoProperties(details[n]) THEN "throws"
    ELSE "false"

\* for (const node of payload.nodes) { ... node.config.connectionId = ... }
patchedNodes(nodes, telegramConnectionId) ==
    [i \in DOMAIN nodes |->
        IF nodes[i].type = "TELEGRAM" /\ Truthy(nodes[i].config)
        THEN [nodes[i] EXCEPT !.config = SetProp(@, <<"c", "o", "n", "n", "e", "c", "t", "i", "o", "n", "I", "d">>, telegramConnectionId)]
        ELSE nodes[i]]

\* What the function did: "true" with the nodes patched, "false", or
\* "throws".
Patch(returns, nodes) == [returns |-> returns, nodes |-> nodes]

patchFromDetails(details, nodes, telegramConnectionId) ==
    IF details.t # "array" THEN Patch("false", nodes)
    ELSE IF someConnectionIdError(details.a) = "true"
         THEN Patch("true", patchedNodes(nodes, telegramConnectionId))
    ELSE Patch(someConnectionIdError(details.a), nodes)

patchFromBody(text, nodes, telegramConnectionId) ==
    IF ~(\E p \in ErrorBodies : p[1] = text) THEN Patch("false", nodes)
    ELSE patchFromDetails(
             Get(Get((CHOOSE p \in ErrorBodies : p[1] = text)[2], <<"e", "r", "r", "o", "r">>), <<"d", "e", "t", "a", "i", "l", "s">>),
             nodes, telegramConnectionId)

tryPatchWorkflowPayloadFromValidationError_Always(error, nodes, telegramConnectionId) ==
    Patch("true", patchedNodes(nodes, telegramConnectionId))
tryPatchWorkflowPayloadFromValidationError(error, nodes, telegramConnectionId) ==
    IF ~Truthy(telegramConnectionId) THEN Patch("false", nodes)
    ELSE IF MatchesOf(error.message) = {} THEN Patch("false", nodes)
    ELSE patchFromBody(MatchedBody(error.message, MatchesOf(error.message)),
                       nodes, telegramConnectionId)

\* const ch = channel ?? 'a2a'
ChannelOf(request) == Coalesce(request.channel, JStr(<<"a", "2", "a">>)).s

\* const key = channelId ? sessionKey(ch, channelId) : sessionKey(ch, userId)
KeyOf(request) ==
    IF Truthy(request.channelId)
    THEN sessionKey(ChannelOf(request), request.channelId.s)
    ELSE sessionKey(ChannelOf(request), request.userId)

\* const chatIdStr = channelId ?? userId
ChatIdOf(request) == Coalesce(request.channelId, JStr(request.userId)).s

\* One call of a client, as the service saw it.
Call(op, userId, arg, outcome) ==
    [op |-> op, userId |-> userId, arg |-> arg, outcome |-> outcome]

Logged(L, op, userId, arg, outcome) ==
    [L EXCEPT !.calls = Append(@, Call(op, userId, arg, outcome))]

\* The call ends: it throws error.
Throws(L, error) == [L EXCEPT !.pc = "done", !.result = Failed(error)]

\* The call ends: it returns value.
Returns(L, value) == [L EXCEPT !.pc = "done", !.result = Ok(value)]

\* plan.steps.some((step) => step.blockId === 'telegram')
requiresTelegramConnection(plan) ==
    \E i \in DOMAIN plan.steps : plan.steps[i].blockId = <<"t", "e", "l", "e", "g", "r", "a", "m">>

\* execute from "if (!plan) throw" to the call it awaits next; pc "compile"
\* stands for reaching compilePlannerResultToWorkflow.
Gate_IgnoreMissingInputs(L) ==
    IF L.plan = JUndefined THEN Throws(L, NoPlanToExecute)
    ELSE IF requiresTelegramConnection(L.plan) /\ ChannelOf(L.request) = <<"t", "e", "l", "e", "g", "r", "a", "m">>
         THEN [L EXCEPT !.pc = "connection"]
    ELSE IF requiresTelegramConnection(L.plan) THEN Throws(L, TelegramRequired)
    ELSE [L EXCEPT !.pc = "compile"]
Gate(L) ==
    IF L.plan = JUndefined THEN Throws(L, NoPlanToExecute)
    ELSE IF Len(L.plan.missingInputs) > 0 THEN Throws(L, PlanHasMissingInputs)
    ELSE IF requiresTelegramConnection(L.plan) /\ ChannelOf(L.request) = <<"t", "e", "l", "e", "g", "r", "a", "m">>
         THEN [L EXCEPT !.pc = "connection"]
    ELSE IF requiresTelegramConnection(L.plan) THEN Throws(L, TelegramRequired)
    ELSE [L EXCEPT !.pc = "compile"]

\* compilePlannerResultToWorkflow({ plan, chatId: chatIdStr, telegramConnectionId })
Compiled(L, uuid) ==
    compilePlannerResultToWorkflow(
        [plan |-> L.plan, chatId |-> JStr(ChatIdOf(L.request)),
         telegramConnectionId |-> L.telegramConnectionId], uuid)

\* const payload = { ... }; workflowClient.createWorkflow(executionUserId, payload)
AfterCompile(L, compiled) ==
    IF compiled.ok
    THEN [L EXCEPT !.payload = compiled.workflow, !.schedule = compiled.schedule,
                   !.pc = "create"]
    ELSE Throws(L, Thrown("compilePlannerResultToWorkflow", compiled.error))

\* The call p compiles the plan and calls createWorkflow.
CompileAndCreate(p, L) ==
    /\ procs' = [procs EXCEPT ![p] = AfterCompile(L, Compiled(L, nextUuid))]
    /\ nextUuid' = nextUuid + Compiled(L, nextUuid).uuids

\* The call p goes on from "if (!plan) throw" with the locals L.
Proceed(p, L) ==
    IF Gate(L).pc = "compile" THEN CompileAndCreate(p, L)
    ELSE /\ procs' = [procs EXCEPT ![p] = Gate(L)]
         /\ UNCHANGED nextUuid

\* if (!plan) { const session = get(key); plan = session?.lastPlan;
\*              if (session) executionUserId = session.userId; }
Resolved(L, session) ==
    IF L.plan # JUndefined \/ session = JUndefined THEN L
    ELSE [L EXCEPT !.plan = session.lastPlan, !.executionUserId = session.userId]

\* The session plan() writes: the plan, and the identifiers kept.
PlannedSession_Overwrite(userId, plannerResult, existing) ==
    Session(userId, plannerResult, JUndefined, JUndefined, JUndefined)
PlannedSession(userId, plannerResult, existing) ==
    IF existing = JUndefined
    THEN Session(userId, plannerResult, JUndefined, JUndefined, JUndefined)
    ELSE Session(userId, plannerResult, existing.lastWorkflowId,
                 existing.lastExecutionId, existing.lastTimeBlockId)

\* plan() stores plannerResult and returns it: a plan call ends, an execute
\* call goes on with the plan and the session's userId.
PlanReturns(p, L, plannerResult) ==
    /\ sessions' = SessionSet(sessions, KeyOf(L.request),
                              PlannedSession(L.request.userId, plannerResult,
                                             SessionGet(sessions, KeyOf(L.request))))
    /\ IF L.kind = "plan"
       THEN /\ procs' = [procs EXCEPT ![p] =
                            Returns([L EXCEPT !.plannerResult = plannerResult],
                                    [plan |-> plannerResult])]
            /\ UNCHANGED nextUuid
       ELSE Proceed(p, [L EXCEPT !.plannerResult = plannerResult,
                                 !.plan = plannerResult,
                                 !.executionUserId = L.request.userId])

\* A call can be made: fewer than MaxCalls were, and none is in flight.
MaxCalls == 2

CanStart(p) == started < MaxCalls /\ \A q \in Procs : procs[q].pc \in {"idle", "done"}

NewCall(kind, request) ==
    [IdleCall EXCEPT !.pc = "start", !.kind = kind, !.request = request,
                     !.plan = request.plan, !.executionUserId = request.userId]

\* typeof prompt === 'string' && prompt.trim()
HasPrompt(request) == request.prompt.t = "string" /\ trim(request.prompt.s) # <<>>

(***************************************************************************)
(* The requests the service is called with and what its clients answer.    *)
(***************************************************************************)
TelegramOnly == PlanOf(<<Step(<<"t", "e", "l", "e", "g", "r", "a", "m">>, <<"N", "o", "t", "i", "f", "y", " ", "m", "e">>, <<>>)>>)

ScheduledTelegram ==
    PlanOf(<<Step(<<"t", "i", "m", "e", "-", "b", "l", "o", "c", "k">>, <<"E", "v", "e", "r", "y", " ", "m", "i", "n", "u", "t", "e">>,
                  <<Prop(<<"i", "n", "t", "e", "r", "v", "a", "l", "S", "e", "c", "o", "n", "d", "s">>, <<"6", "0">>), Prop(<<"d", "u", "r", "a", "t", "i", "o", "n", "S", "e", "c", "o", "n", "d", "s">>, <<"3", "6", "0", "0">>)>>),
             Step(<<"c", "h", "a", "i", "n", "l", "i", "n", "k">>, <<"R", "e", "a", "d", " ", "t", "h", "e", " ", "p", "r", "i", "c", "e">>, <<>>),
             Step(<<"t", "e", "l", "e", "g", "r", "a", "m">>, <<"N", "o", "t", "i", "f", "y", " ", "m", "e">>, <<Prop(<<"c", "o", "n", "n", "e", "c", "t", "i", "o", "n", "I", "d">>, <<"c", "o", "n", "n", "-", "9">>)>>)>>)

ApiOnly == PlanOf(<<Step(<<"a", "p", "i">>, <<"C", "a", "l", "l", " ", "t", "h", "e", " ", "A", "P", "I">>, <<>>)>>)

ScheduledApi ==
    PlanOf(<<Step(<<"t", "i", "m", "e", "-", "b", "l", "o", "c", "k">>, <<>>, <<>>), Step(<<"a", "p", "i">>, <<"C", "a", "l", "l", " ", "t", "h", "e", " ", "A", "P", "I">>, <<>>)>>)

Incomplete ==
    [TelegramOnly EXCEPT !.missingInputs =
        <<[field |-> <<"c", "h", "a", "t", "I", "d">>, question |-> <<"W", "h", "i", "c", "h", " ", "c", "h", "a", "t", "?">>]>>]

TriggerOnly == PlanOf(<<Step(<<"t", "i", "m", "e", "-", "b", "l", "o", "c", "k">>, <<"E", "v", "e", "r", "y", " ", "m", "i", "n", "u", "t", "e">>, <<>>)>>)

ScheduledCron ==
    PlanOf(<<Step(<<"t", "i", "m", "e", "-", "b", "l", "o", "c", "k">>, <<"E", "v", "e", "r", "y", " ", "h", "o", "u", "r">>, <<Prop(<<"c", "r", "o", "n", "E", "x", "p", "r", "e", "s", "s", "i", "o", "n">>, <<" ", "0", " ", "*", " ", "*", " ", "*", " ", "*", " ">>)>>),
             Step(<<"a", "p", "i">>, <<"C", "a", "l", "l", " ", "t", "h", "e", " ", "A", "P", "I">>, <<>>)>>)

ServicePlans ==
    {TelegramOnly, ScheduledTelegram, ApiOnly, ScheduledApi, Incomplete, TriggerOnly,
     ScheduledCron}

\* Where a request comes from: a Telegram chat, or an agent-to-agent caller
\* that names no channel.
Origins ==
    { [channel |-> JStr(<<"t", "e", "l", "e", "g", "r", "a", "m">>), channelId |-> JStr(<<"c", "h", "a", "t", "-", "1">>)],
      [channel |-> JUndefined, channelId |-> JUndefined] }

Request(origin, userId, prompt, plan) ==
    [prompt |-> prompt, plan |-> plan, userId |-> userId,
     channelId |-> origin.channelId, channel |-> origin.channel]

PlanRequests == {Request(o, <<"u", "1">>, JStr(<<"a", "l", "e", "r", "t", " ", "m", "e">>), JUndefined) : o \in Origins}

ExecuteRequests ==
    {Request(o, <<"u", "1">>, prompt, JUndefined) :
        o \in Origins, prompt \in {JUndefined, JStr(<<" ", " ">>), JStr(<<" ", "a", "l", "e", "r", "t", " ", "m", "e", " ">>)}}
    \cup {Request(o, <<"u", "1">>, JUndefined, plan) : o \in Origins, plan \in ServicePlans}
    \cup {Request(o, <<"u", "1">>, JStr(<<"a", "l", "e", "r", "t", " ", "m", "e">>), ApiOnly) : o \in Origins}
    \cup {Request(o, <<"u", "2">>, JUndefined, JUndefined) : o \in Origins}

\* fetchPlannerContext: null, or a context of some keys.
ContextOutcomes == {"null", "some"}

\* generateWorkflowPlan: a sanitized plan, or the error after its retries.
LlmOutcomes ==
    {Ok(plan) : plan \in {ScheduledTelegram, ApiOnly, Incomplete}}
    \cup {Failed(Thrown("generateWorkflowPlan", "Planner request failed after retries."))}

\* fetchTelegramConnection: null, or the link of the chat.
ConnectionOutcomes ==
    {JNull, [connectionId |-> <<"c", "o", "n", "n", "-", "1">>, userId |-> <<"p", "r", "i", "v", "y", "-", "1">>]}

\* The identifier the backend gives what the n-th call creates.
BackendId(prefix, n) == prefix \o DecimalDigits(n)

\* createWorkflow: the workflow's id, or one of the errors it throws.
CreateErrors ==
    {createWorkflowError(400, body[1]) : body \in ErrorBodies}
    \cup { createWorkflowError(400, <<"B", "a", "d", " ", "R", "e", "q", "u", "e", "s", "t">>),
           createWorkflowError(500, <<"{", "\"", "e", "r", "r", "o", "r", "\"", ":", "{", "\"", "d", "e", "t", "a", "i", "l", "s", "\"", ":", "[", "{", "\"", "f", "i", "e", "l", "d", "\"", ":", "\"", "n", "o", "d", "e", "s", ".", "2", ".", "c", "o", "n", "f", "i", "g", ".", "c", "o", "n", "n", "e", "c", "t", "i", "o", "n", "I", "d", "\"", "}", "]", "}", "}">>),
           createWorkflowInvalid }

CreateOutcomes(n) ==
    {Ok(BackendId(<<"w", "f", "-">>, n))} \cup {Failed(e) : e \in CreateErrors}

\* createTimeBlock
TimeBlockOutcomes(n) ==
    {Ok(BackendId(<<"t", "b", "-">>, n)), Failed(Thrown("createTimeBlock", "Failed to create time block"))}

\* executeWorkflow
RunOutcomes(n) ==
    {Ok(BackendId(<<"e", "x", "-">>, n)), Failed(Thrown("executeWorkflow", "Failed to execute workflow"))}

(***************************************************************************)
(* plan and execute, one action for each stretch between two awaits.       *)
(***************************************************************************)
\* The fields plan asks the backend for before the first planner call.
REQUESTED_FIELDS_FOR_CONTEXT ==
    <<<<"t", "e", "l", "e", "g", "r", "a", "m", "C", "h", "a", "t", "I", "d">>, <<"p", "r", "i", "v", "y", "U", "s", "e", "r", "I", "d">>, <<"u", "s", "e", "r", "A", "d", "d", "r", "e", "s", "s">>, <<"p", "r", "e", "f", "e", "r", "r", "e", "d", "C", "h", "a", "i", "n", "s">>,
      <<"p", "r", "e", "f", "e", "r", "r", "e", "d", "T", "o", "k", "e", "n", "s">>>>

\* plannerResult.missingInputs.map((item) => item.field)
MissingFieldsOf(plannerResult) ==
    [i \in DOMAIN plannerResult.missingInputs |-> plannerResult.missingInputs[i].field]

\* plan(request) up to its first await.
PlanStart(p) ==
    /\ CanStart(p)
    /\ \E request \in PlanRequests :
          procs' = [procs EXCEPT ![p] = [NewCall("plan", request) EXCEPT !.pc = "planContext"]]
    /\ started' = started + 1
    /\ UNCHANGED <<workflowClient, sessions, nextUuid>>

\* execute(request) up to its first await.
ExecuteBegins_PromptFirst(p, L) ==
    IF ~workflowClient
    THEN procs' = [procs EXCEPT ![p] = Throws(L, NotConfigured)] /\ UNCHANGED nextUuid
    ELSE IF HasPrompt(L.request)
    THEN procs' = [procs EXCEPT ![p] = [L EXCEPT !.pc = "planContext"]] /\ UNCHANGED nextUuid
    ELSE Proceed(p, Resolved(L, SessionGet(sessions, KeyOf(L.request))))
ExecuteBegins(p, L) ==
    IF ~workflowClient
    THEN procs' = [procs EXCEPT ![p] = Throws(L, NotConfigured)] /\ UNCHANGED nextUuid
    ELSE IF L.plan = JUndefined /\ HasPrompt(L.request)
    THEN procs' = [procs EXCEPT ![p] = [L EXCEPT !.pc = "planContext"]] /\ UNCHANGED nextUuid
    ELSE Proceed(p, Resolved(L, SessionGet(sessions, KeyOf(L.request))))

ExecuteStart(p) ==
    /\ CanStart(p)
    /\ \E request \in ExecuteRequests : ExecuteBegins(p, NewCall("execute", request))
    /\ started' = started + 1
    /\ UNCHANGED <<workflowClient, sessions>>

\* await fetchPlannerContext(...) of plan returns.
PlanContext(p) ==
    /\ procs[p].pc = "planContext"
    /\ \E context \in ContextOutcomes :
          procs' = [procs EXCEPT ![p] =
                       [Logged(@, "fetchPlannerContext", @.request.userId,
                               REQUESTED_FIELDS_FOR_CONTEXT, context)
                           EXCEPT !.pc = "planLlm"]]
    /\ UNCHANGED <<workflowClient, sessions, started, nextUuid>>

\* await generateWorkflowPlan(...) returns or throws.
AfterLlm(p, L, outcome) ==
    IF ~outcome.ok
    THEN procs' = [procs EXCEPT ![p] = Throws(L, outcome.error)]
         /\ UNCHANGED <<sessions, nextUuid>>
    ELSE IF Len(outcome.value.missingInputs) > 0
    THEN procs' = [procs EXCEPT ![p] =
                      [L EXCEPT !.plannerResult = outcome.value,
                                !.pc = "planRefineContext"]]
         /\ UNCHANGED <<sessions, nextUuid>>
    ELSE PlanReturns(p, L, outcome.value)

PlanLlm(p) ==
    /\ procs[p].pc = "planLlm"
    /\ \E outcome \in LlmOutcomes :
          AfterLlm(p, Logged(procs[p], "generateWorkflowPlan", procs[p].request.userId,
                             JUndefined, outcome), outcome)
    /\ UNCHANGED <<workflowClient, started>>

\* The second await fetchPlannerContext(...) returns.
AfterRefineContext_SkipPlanner(p, L, context) == PlanReturns(p, L, L.plannerResult)
AfterRefineContext(p, L, context) ==
    IF context = "some"
    THEN procs' = [procs EXCEPT ![p] = [L EXCEPT !.pc = "planRefineLlm"]]
         /\ UNCHANGED <<sessions, nextUuid>>
    ELSE PlanReturns(p, L, L.plannerResult)

PlanRefineContext(p) ==
    /\ procs[p].pc = "planRefineContext"
    /\ \E context \in ContextOutcomes :
          AfterRefineContext(p, Logged(procs[p], "fetchPlannerContext",
                                       procs[p].request.userId,
                                       MissingFieldsOf(procs[p].plannerResult), context),
                             context)
    /\ UNCHANGED <<workflowClient, started>>

\* The second await generateWorkflowPlan(...) returns or throws.
AfterRefineLlm(p, L, outcome) ==
    IF ~outcome.ok
    THEN procs' = [procs EXCEPT ![p] = Throws(L, outcome.error)]
         /\ UNCHANGED <<sessions, nextUuid>>
    ELSE PlanReturns(p, L, outcome.value)

PlanRefineLlm(p) ==
    /\ procs[p].pc = "planRefineLlm"
    /\ \E outcome \in LlmOutcomes :
          AfterRefineLlm(p, Logged(procs[p], "generateWorkflowPlan",
                                   procs[p].request.userId, JUndefined, outcome),
                         outcome)
    /\ UNCHANGED <<workflowClient, started>>

\* await fetchTelegramConnection(...) returns.
AfterConnection_WithoutLink(p, L, connection) ==
    IF connection = JNull THEN CompileAndCreate(p, L)
    ELSE CompileAndCreate(p, [L EXCEPT !.telegramConnectionId = JStr(connection.connectionId),
                                       !.executionUserId = connection.userId])
AfterConnection(p, L, connection) ==
    IF connection = JNull
    THEN procs' = [procs EXCEPT ![p] = Throws(L, TelegramNotLinked)]
         /\ UNCHANGED nextUuid
    ELSE CompileAndCreate(p, [L EXCEPT !.telegramConnectionId = JStr(connection.connectionId),
                                       !.executionUserId = connection.userId])

ExecuteConnection(p) ==
    /\ procs[p].pc = "connection"
    /\ \E connection \in ConnectionOutcomes :
          AfterConnection(p, Logged(procs[p], "fetchTelegramConnection",
                                    procs[p].executionUserId,
                                    ChatIdOf(procs[p].request), connection),
                          connection)
    /\ UNCHANGED <<workflowClient, sessions, started>>

\* The session execute writes: ...sessionForWrite, lastPlan: plan, and the
\* identifiers produced so far.
WrittenSession(L) ==
    [L.sessionForWrite EXCEPT !.lastPlan = L.plan, !.lastWorkflowId = L.created]

\* const sessionForWrite = session ?? { userId: executionUserId }
sessionForWriteOf(session, executionUserId) ==
    IF session = JUndefined
    THEN Session(executionUserId, JUndefined, JUndefined, JUndefined, JUndefined)
    ELSE session

\* createWorkflow returned created: the session is written, and the time
\* block or the execution is asked for.
schedulePc_Never(schedule) == "run"
schedulePc(schedule) == IF schedule # JUndefined THEN "timeBlock" ELSE "run"

Created(L, id, session) ==
    [L EXCEPT !.created = JStr(id),
              !.sessionForWrite = sessionForWriteOf(session, L.executionUserId),
              !.pc = schedulePc(L.schedule)]

AfterCreated(p, L) ==
    /\ procs' = [procs EXCEPT ![p] = L]
    /\ sessions' = SessionSet(sessions, KeyOf(L.request), WrittenSession(L))

\* catch (firstError): patch and retry, or throw.
AfterFirstError(L, firstError, patch) ==
    IF patch.returns = "true"
    THEN [L EXCEPT !.payload.nodes = patch.nodes, !.pc = "retry"]
    ELSE IF patch.returns = "throws" THEN Throws(L, TypeErrorOnField)
    ELSE Throws(L, firstError)

\* await createWorkflow(executionUserId, payload) returns or throws.
AfterCreate(p, L, outcome) ==
    IF outcome.ok
    THEN AfterCreated(p, Created(L, outcome.value, SessionGet(sessions, KeyOf(L.request))))
    ELSE /\ procs' = [procs EXCEPT ![p] =
                         AfterFirstError(L, outcome.error,
                             tryPatchWorkflowPayloadFromValidationError(
                                 outcome.error, L.payload.nodes, L.telegramConnectionId))]
         /\ UNCHANGED sessions

ExecuteCreate(p) ==
    /\ procs[p].pc = "create"
    /\ \E outcome \in CreateOutcomes(started) :
          AfterCreate(p, Logged(procs[p], "createWorkflow", procs[p].executionUserId,
                                procs[p].payload.nodes, outcome), outcome)
    /\ UNCHANGED <<workflowClient, started, nextUuid>>

\* The second await createWorkflow(executionUserId, payload) returns or throws.
AfterRetry(p, L, outcome) ==
    IF outcome.ok
    THEN AfterCreated(p, Created(L, outcome.value, SessionGet(sessions, KeyOf(L.request))))
    ELSE procs' = [procs EXCEPT ![p] = Throws(L, outcome.error)] /\ UNCHANGED sessions

ExecuteRetry(p) ==
    /\ procs[p].pc = "retry"
    /\ \E outcome \in CreateOutcomes(started) :
          AfterRetry(p, Logged(procs[p], "createWorkflow", procs[p].executionUserId,
                               procs[p].payload.nodes, outcome), outcome)
    /\ UNCHANGED <<workflowClient, started, nextUuid>>

\* An ExecuteResponse; JUndefined stands for a property that is absent.
ExecuteResponse(workflowId, executionId, timeBlockId, schedule, executionUserId) ==
    [workflowId |-> workflowId, executionId |-> executionId, timeBlockId |-> timeBlockId,
     schedule |-> schedule, executionUserId |-> executionUserId]

\* The body execute sends createTimeBlock; untilAt is durationMs after runAt.
TimeBlockBody(L) ==
    [workflowId |-> L.created,
     recurrence |-> [type |-> "INTERVAL", intervalSeconds |-> L.schedule.intervalSeconds],
     durationMs |-> L.schedule.durationSeconds * 1000]

\* await createTimeBlock(...) returns or throws.
AfterTimeBlock(p, L, outcome) ==
    IF ~outcome.ok
    THEN procs' = [procs EXCEPT ![p] = Throws(L, outcome.error)] /\ UNCHANGED sessions
    ELSE /\ procs' = [procs EXCEPT ![p] =
                         Returns(L, ExecuteResponse(L.created, JUndefined,
                                                    JStr(outcome.value), L.schedule,
                                                    L.executionUserId))]
         /\ sessions' = SessionSet(sessions, KeyOf(L.request),
                                   [WrittenSession(L) EXCEPT
                                       !.lastTimeBlockId = JStr(outcome.value)])

ExecuteTimeBlock(p) ==
    /\ procs[p].pc = "timeBlock"
    /\ \E outcome \in TimeBlockOutcomes(started) :
          AfterTimeBlock(p, Logged(procs[p], "createTimeBlock", procs[p].executionUserId,
                                   TimeBlockBody(procs[p]), outcome), outcome)
    /\ UNCHANGED <<workflowClient, started, nextUuid>>

\* await executeWorkflow(executionUserId, created.id) returns or throws.
AfterRun(p, L, outcome) ==
    IF ~outcome.ok
    THEN procs' = [procs EXCEPT ![p] = Throws(L, outcome.error)] /\ UNCHANGED sessions
    ELSE /\ procs' = [procs EXCEPT ![p] =
                         Returns(L, ExecuteResponse(L.created, JStr(outcome.value),
                                                    JUndefined, JUndefined,
                                                    L.executionUserId))]
         /\ sessions' = SessionSet(sessions, KeyOf(L.request),
                                   [WrittenSession(L) EXCEPT
                                       !.lastExecutionId = JStr(outcome.value)])

ExecuteRun(p) ==
    /\ procs[p].pc = "run"
    /\ \E outcome \in RunOutcomes(started) :
          AfterRun(p, Logged(procs[p], "executeWorkflow", procs[p].executionUserId,
                             procs[p].created, outcome), outcome)
    /\ UNCHANGED <<workflowClient, started, nextUuid>>

ServiceInit ==
    /\ MonitorOff
    /\ ClientsOff
    /\ SanOff
    /\ CmpOff
    /\ workflowClient \in BOOLEAN
    /\ sessions = <<>>
    /\ started = 0
    /\ procs = [p \in Procs |-> IdleCall]

\* What no call of the service changes.
ServiceFrame == UNCHANGED <<monitorVars, clientVars, sanVars, cmpPc, cmpOptions, cmpResult>>

ServiceNext ==
    \/ \E p \in Procs : PlanStart(p) /\ ServiceFrame
    \/ \E p \in Procs : ExecuteStart(p) /\ ServiceFrame
    \/ \E p \in Procs : PlanContext(p) /\ ServiceFrame
    \/ \E p \in Procs : PlanLlm(p) /\ ServiceFrame
    \/ \E p \in Procs : PlanRefineContext(p) /\ ServiceFrame
    \/ \E p \in Procs : PlanRefineLlm(p) /\ ServiceFrame
    \/ \E p \in Procs : ExecuteConnection(p) /\ ServiceFrame
    \/ \E p \in Procs : ExecuteCreate(p) /\ ServiceFrame
    \/ \E p \in Procs : ExecuteRetry(p) /\ ServiceFrame
    \/ \E p \in Procs : ExecuteTimeBlock(p) /\ ServiceFrame
    \/ \E p \in Procs : ExecuteRun(p) /\ ServiceFrame

SpecService == ServiceInit /\ [][ServiceNext]_vars

(***************************************************************************)
(* Claims about execute.                                                   *)
(***************************************************************************)
\* The createWorkflow calls of a call, in order.
Creates(L) == SelectSeq(L.calls, LAMBDA c : c.op = "createWorkflow")

\* The calls of a call to the workflow backend.
WorkflowCalls(L) ==
    SelectSeq(L.calls, LAMBDA c : c.op \in {"createWorkflow", "createTimeBlock",
                                            "executeWorkflow"})

\* The fields the details of a response body name.
FieldsNamed(body) ==
    IF Get(Get(body, <<"e", "r", "r", "o", "r">>), <<"d", "e", "t", "a", "i", "l", "s">>).t # "array" THEN {}
    ELSE {Get(Get(Get(body, <<"e", "r", "r", "o", "r">>), <<"d", "e", "t", "a", "i", "l", "s">>).a[i], <<"f", "i", "e", "l", "d">>) :
             i \in DOMAIN Get(Get(body, <<"e", "r", "r", "o", "r">>), <<"d", "e", "t", "a", "i", "l", "s">>).a}

\* The 400 errors of this model whose details name a node's connectionId.
ConnectionIdValidationErrors ==
    {createWorkflowError(400, b[1]) :
        b \in {c \in ErrorBodies :
                  FieldsNamed(c[2]) \cap {JStr(<<"n", "o", "d", "e", "s", ".", "0", ".", "c", "o", "n", "f", "i", "g", ".", "c", "o", "n", "n", "e", "c", "t", "i", "o", "n", "I", "d">>),
                                          JStr(<<"n", "o", "d", "e", "s", ".", "2", ".", "c", "o", "n", "f", "i", "g", ".", "c", "o", "n", "n", "e", "c", "t", "i", "o", "n", "I", "d">>),
                                          JStr(<<"n", "o", "d", "e", "s", ".", "1", "2", ".", "c", "o", "n", "f", "i", "g", ".", "c", "o", "n", "n", "e", "c", "t", "i", "o", "n", "I", "d">>)} # {}}}

\* Every TELEGRAM node sent carries the connection id of the link.
TelegramNodesCarry(nodes, telegramConnectionId) ==
    \A i \in DOMAIN nodes :
        nodes[i].type = "TELEGRAM" =>
            Get(nodes[i].config, <<"c", "o", "n", "n", "e", "c", "t", "i", "o", "n", "I", "d">>) = telegramConnectionId

RetryIsJustified(L) ==
    /\ ~Creates(L)[1].outcome.ok
    /\ Creates(L)[1].outcome.error \in ConnectionIdValidationErrors
    /\ L.telegramConnectionId = JStr(<<"c", "o", "n", "n", "-", "1">>)
    /\ TelegramNodesCarry(Creates(L)[2].arg, L.telegramConnectionId)

\* C4: one execute call calls createWorkflow at most twice; the second call
\* is made only after the first failed with a 400 whose details name a
\* node's config.connectionId while the Telegram link is resolved, and it
\* sends the TELEGRAM nodes with the link's connection id; when it fails,
\* execute throws its error.
C4_AtMostOneRetry ==
    \A p \in Procs :
        /\ Len(Creates(procs[p])) <= 2
        /\ Len(Creates(procs[p])) = 2 => RetryIsJustified(procs[p])
        /\ (Len(Creates(procs[p])) = 2 /\ procs[p].pc = "done"
              /\ ~Creates(procs[p])[2].outcome.ok)
             => procs[p].result = Failed(Creates(procs[p])[2].outcome.error)

\* An execute call whose first createWorkflow failed has retried with the
\* connection id of the link in place of the one the plan gave, and ended.
C4_Witness ==
    \E p \in Procs :
        /\ procs[p].pc = "done"
        /\ Len(Creates(procs[p])) = 2
        /\ Creates(procs[p])[1].arg # Creates(procs[p])[2].arg
        /\ ~Creates(procs[p])[2].outcome.ok

\* No plan can be resolved: no plan argument, no prompt, no plan in the
\* session of the key.
NoPlanAvailable(L) ==
    /\ L.request.plan = JUndefined
    /\ ~HasPrompt(L.request)
    /\ \/ SessionGet(sessions, KeyOf(L.request)) = JUndefined
       \/ SessionGet(sessions, KeyOf(L.request)).lastPlan = JUndefined

IsIncomplete(plan) == plan # JUndefined /\ Len(plan.missingInputs) > 0

\* The plan resolved has missing inputs: the plan argument, else the plan
\* made from the prompt, else the plan of the session.
ResolvedIncomplete(L) ==
    IF L.request.plan # JUndefined THEN IsIncomplete(L.request.plan)
    ELSE IF HasPrompt(L.request) THEN IsIncomplete(L.plan)
    ELSE /\ SessionGet(sessions, KeyOf(L.request)) # JUndefined
         /\ IsIncomplete(SessionGet(sessions, KeyOf(L.request)).lastPlan)

FailsWithout(L, error) ==
    /\ WorkflowCalls(L) = <<>>
    /\ L.pc = "done" => L.result = Failed(error)

\* C5: an execute call for which no plan can be resolved makes no call to
\* the workflow backend and throws NoPlanToExecute; one whose resolved plan
\* has missing inputs makes none and throws PlanHasMissingInputs.
C5_NoBackendCallWithoutCompletePlan ==
    \A p \in Procs :
        procs[p].kind = "execute" =>
            /\ NoPlanAvailable(procs[p]) => FailsWithout(procs[p], NoPlanToExecute)
            /\ ResolvedIncomplete(procs[p]) => FailsWithout(procs[p], PlanHasMissingInputs)

\* C5 as it holds: the same when a workflow client is configured; without
\* one, every execute call throws before it resolves a plan and calls no
\* client at all.
C5_WhenWorkflowClientConfigured ==
    \A p \in Procs :
        procs[p].kind = "execute" =>
            IF workflowClient
            THEN /\ NoPlanAvailable(procs[p]) => FailsWithout(procs[p], NoPlanToExecute)
                 /\ ResolvedIncomplete(procs[p])
                       => FailsWithout(procs[p], PlanHasMissingInputs)
            ELSE /\ procs[p].calls = <<>>
                 /\ procs[p].pc = "done"
                 /\ procs[p].result = Failed(NotConfigured)

\* An execute call without plan and prompt has found the incomplete plan an
\* earlier plan call left in the session, and has thrown.
C5_Witness ==
    \E p \in Procs :
        /\ workflowClient
        /\ procs[p].kind = "execute"
        /\ procs[p].pc = "done"
        /\ procs[p].request.plan = JUndefined
        /\ ~HasPrompt(procs[p].request)
        /\ ResolvedIncomplete(procs[p])
        /\ procs[p].result = Failed(PlanHasMissingInputs)

\* The calls to the workflow backend after the createWorkflow that returned.
AfterCreation(L) == SubSeq(WorkflowCalls(L), Len(Creates(L)) + 1, Len(WorkflowCalls(L)))

\* The plan run carries a schedule: its first step is the time-block step.
CarriesSchedule(L) == IsTimeBlockStep(L.plan.steps[1])

RegisteredTrigger(L) ==
    /\ AfterCreation(L)[1].op = "createTimeBlock"
    /\ L.result.value.timeBlockId = JStr(AfterCreation(L)[1].outcome.value)
    /\ L.result.value.executionId = JUndefined

RanAtOnce(L) ==
    /\ AfterCreation(L)[1].op = "executeWorkflow"
    /\ L.result.value.executionId = JStr(AfterCreation(L)[1].outcome.value)
    /\ L.result.value.timeBlockId = JUndefined

\* C6: an execute call that returns has made, after the createWorkflow that
\* returned, exactly one call to the workflow backend: createTimeBlock when
\* the plan carried a schedule, and then it returns timeBlockId and no
\* executionId; executeWorkflow otherwise, and then it returns executionId
\* and no timeBlockId.
C6_TriggerOrExecution ==
    \A p \in Procs :
        (procs[p].kind = "execute" /\ procs[p].pc = "done" /\ procs[p].result.ok) =>
            /\ Creates(procs[p])[Len(Creates(procs[p]))].outcome.ok
            /\ Len(AfterCreation(procs[p])) = 1
            /\ IF CarriesSchedule(procs[p]) THEN RegisteredTrigger(procs[p])
               ELSE RanAtOnce(procs[p])

\* A scheduled plan has been registered after a retried creation.
C6_Witness ==
    \E p \in Procs :
        /\ procs[p].kind = "execute"
        /\ procs[p].pc = "done"
        /\ procs[p].result.ok
        /\ CarriesSchedule(procs[p])
        /\ Len(Creates(procs[p])) = 2
        /\ procs[p].result.value.timeBlockId # JUndefined

\* The positions of the steps to compile whose blockId the catalog lacks.
UnknownSteps(plan) ==
    {i \in DOMAIN ActionStepsOf(plan) :
        \A b \in DOMAIN PLANNER_BLOCKS : PLANNER_BLOCKS[b].id # ActionStepsOf(plan)[i].blockId}

Minimum(S) == CHOOSE n \in S : \A m \in S : n <= m

\* The call threw this error and returned no workflow.
CompileFailedWith(result, error) == ~result.ok /\ result.error = error

\* C11: compiling a plan of zero steps throws the no-steps error; compiling
\* one whose only step is the time-block step throws the no-downstream-step
\* error; compiling one with a step to compile whose blockId is not in the
\* catalog throws the unknown-blockId error for the first such step; no
\* workflow is returned in any of the three cases.
C11_CompileErrors ==
    cmpPc = "done" =>
        /\ Len(cmpOptions.plan.steps) = 0 =>
              CompileFailedWith(cmpResult, "Cannot compile workflow: planner returned no steps.")
        /\ (Len(cmpOptions.plan.steps) = 1 /\ IsTimeBlockStep(cmpOptions.plan.steps[1])) =>
              CompileFailedWith(cmpResult, "Cannot compile workflow: time-block trigger requires at least one downstream action step.")
        /\ UnknownSteps(cmpOptions.plan) # {} =>
              /\ CompileFailedWith(cmpResult, "Unknown planner blockId")
              /\ cmpResult.step = Minimum(UnknownSteps(cmpOptions.plan))

\* A scheduled plan whose second action step is unknown to the catalog has
\* been refused at that step.
C11_Witness ==
    /\ cmpPc = "done"
    /\ Len(cmpOptions.plan.steps) = 3
    /\ IsTimeBlockStep(cmpOptions.plan.steps[1])
    /\ UnknownSteps(cmpOptions.plan) = {2}
    /\ ~cmpResult.ok
    /\ cmpResult.step = 2

\* An identifier of the session of a key, undefined when there is none.
IdentifiersOf(store, key) ==
    IF SessionGet(store, key) = JUndefined
    THEN [lastWorkflowId |-> JUndefined, lastExecutionId |-> JUndefined,
          lastTimeBlockId |-> JUndefined]
    ELSE [lastWorkflowId |-> SessionGet(store, key).lastWorkflowId,
          lastExecutionId |-> SessionGet(store, key).lastExecutionId,
          lastTimeBlockId |-> SessionGet(store, key).lastTimeBlockId]

\* The plan call p returns in this step.
PlanCallReturns(p) ==
    /\ procs[p].kind = "plan"
    /\ procs[p].pc # "done"
    /\ procs'[p].pc = "done"
    /\ procs'[p].result.ok

PlanKeepsIdentifiers(p) ==
    /\ SessionGet(sessions', KeyOf(procs[p].request)) # JUndefined
    /\ SessionGet(sessions', KeyOf(procs[p].request)).lastPlan = procs'[p].result.value.plan
    /\ IdentifiersOf(sessions', KeyOf(procs[p].request))
          = IdentifiersOf(sessions, KeyOf(procs[p].request))

\* C12: when a plan call for a key returns, the session of the key holds the
\* plan returned as lastPlan, and lastWorkflowId, lastExecutionId and
\* lastTimeBlockId are what they were before (undefined when the key had no
\* session).
C12_PlanKeepsIdentifiers ==
    [][\A p \in Procs : PlanCallReturns(p) => PlanKeepsIdentifiers(p)]_vars

\* A plan call has returned for a key whose session an earlier execute call
\* left with a workflow and an execution; the session holds them and the
\* new plan.
C12_Witness ==
    \E p \in Procs :
        /\ procs[p].kind = "plan"
        /\ procs[p].pc = "done"
        /\ procs[p].result.ok
        /\ SessionGet(sessions, KeyOf(procs[p].request)) # JUndefined
        /\ SessionGet(sessions, KeyOf(procs[p].request)).lastPlan = procs[p].result.value.plan
        /\ SessionGet(sessions, KeyOf(procs[p].request)).lastWorkflowId # JUndefined
        /\ SessionGet(sessions, KeyOf(procs[p].request)).lastExecutionId # JUndefined

(***************************************************************************)
(* Concurrent calls: every call runs from one await to the next in one     *)
(* step, and the steps of the calls in flight interleave.                  *)
(***************************************************************************)
Callers == {"call", "rival"}

\* Every caller makes one call; the call of the other may be in flight.
CanCall(p) == procs[p].pc = "idle"

\* Two chats of the telegram channel, and a caller of no channel.
ConcurrentOrigins ==
    Origins \cup {[channel |-> JStr(<<"t", "e", "l", "e", "g", "r", "a", "m">>), channelId |-> JStr(<<"c", "h", "a", "t", "-", "2">>)]}

ConcurrentPlanRequests ==
    {Request(o, <<"u", "1">>, JStr(<<"a", "l", "e", "r", "t", " ", "m", "e">>), JUndefined) : o \in ConcurrentOrigins}

ConcurrentExecuteRequests ==
    {Request(o, <<"u", "1">>, JUndefined, JUndefined) : o \in ConcurrentOrigins}
    \cup {Request(o, <<"u", "1">>, JUndefined, plan) :
              o \in ConcurrentOrigins, plan \in {ApiOnly, ScheduledApi}}
    \cup {Request(o, <<"u", "1">>, JStr(<<"a", "l", "e", "r", "t", " ", "m", "e">>), JUndefined) : o \in ConcurrentOrigins}

ConcurrentPlanStart(p) ==
    /\ CanCall(p)
    /\ \E request \in ConcurrentPlanRequests :
          procs' = [procs EXCEPT ![p] = [NewCall("plan", request) EXCEPT !.pc = "planContext"]]
    /\ started' = started + 1
    /\ UNCHANGED <<workflowClient, sessions, nextUuid>>

ConcurrentExecuteStart(p) ==
    /\ CanCall(p)
    /\ \E request \in ConcurrentExecuteRequests : ExecuteBegins(p, NewCall("execute", request))
    /\ started' = started + 1
    /\ UNCHANGED <<workflowClient, sessions>>

\* The errors a call of the concurrent runs ends with.
ConcurrentErrors == {NoPlanToExecute, PlanHasMissingInputs, createWorkflowInvalid}

\* The call of p has not ended with an error outside ConcurrentErrors and
\* does not wait for the Telegram link or for a second createWorkflow.
Bounded(p) ==
    /\ procs[p].pc \notin {"connection", "retry"}
    /\ (procs[p].pc = "done" /\ ~procs[p].result.ok)
          => procs[p].result.error \in ConcurrentErrors

ConcurrentInit ==
    /\ MonitorOff
    /\ ClientsOff
    /\ SanOff
    /\ CmpOff
    /\ workflowClient = TRUE
    /\ sessions = <<>>
    /\ started = 0
    /\ procs = [p \in Callers |-> IdleCall]

ConcurrentNext ==
    \/ \E p \in Callers : ConcurrentPlanStart(p) /\ ServiceFrame
    \/ \E p \in Callers : ConcurrentExecuteStart(p) /\ Bounded(p)' /\ ServiceFrame
    \/ \E p \in Callers : PlanContext(p) /\ ServiceFrame
    \/ \E p \in Callers : PlanLlm(p) /\ Bounded(p)' /\ ServiceFrame
    \/ \E p \in Callers : PlanRefineContext(p) /\ Bounded(p)' /\ ServiceFrame
    \/ \E p \in Callers : PlanRefineLlm(p) /\ Bounded(p)' /\ ServiceFrame
    \/ \E p \in Callers : ExecuteCreate(p) /\ Bounded(p)' /\ ServiceFrame
    \/ \E p \in Callers : ExecuteTimeBlock(p) /\ Bounded(p)' /\ ServiceFrame
    \/ \E p \in Callers : ExecuteRun(p) /\ Bounded(p)' /\ ServiceFrame

SpecConcurrent == ConcurrentInit /\ [][ConcurrentNext]_vars

\* The conversation a request belongs to: its channel and its chat.
Conversation(request) == <<ChannelOf(request), ChatIdOf(request)>>

\* The session a call for this request finds.
SessionOf(store, request) == SessionGet(store, KeyOf(request))

ConcurrentRequests == ConcurrentPlanRequests \cup ConcurrentExecuteRequests

\* The caller p takes this step.
StepOf(p) == procs'[p] # procs[p]

\* The step leaves the session of every other conversation as it was.
OtherSessionsUnchanged(p) ==
    \A other \in ConcurrentRequests :
        Conversation(other) # Conversation(procs'[p].request)
            => SessionOf(sessions', other) = SessionOf(sessions, other)

\* The plan the call of p writes into the session.
PlanWritten(L) == IF L.kind = "plan" THEN L.plannerResult ELSE L.plan

\* The session of p's conversation is what p wrote, whatever another call
\* wrote there since p read it.
LastWriteWins(p) ==
    sessions' # sessions =>
        /\ SessionOf(sessions', procs'[p].request).lastPlan = PlanWritten(procs'[p])
        /\ procs'[p].created # JUndefined =>
              SessionOf(sessions', procs'[p].request).lastWorkflowId = procs'[p].created

\* C13: under every interleaving of plan and execute calls at their awaits,
\* a step of a call for one conversation key leaves the session stored under
\* every other key as it was, and a step that writes the session of its own
\* key leaves there what this call wrote.
C13_KeysDoNotInterfere ==
    [][\A p \in DOMAIN procs :
          StepOf(p) => OtherSessionsUnchanged(p) /\ LastWriteWins(p)]_vars

\* Two execute calls for different conversations are in flight, each after
\* its createWorkflow returned, and each conversation has its own session.
C13_Witness ==
    \E p, q \in DOMAIN procs :
        /\ procs[p].pc = "run"
        /\ procs[q].pc = "timeBlock"
        /\ Conversation(procs[p].request) # Conversation(procs[q].request)
        /\ SessionOf(sessions, procs[p].request) # JUndefined
        /\ SessionOf(sessions, procs[q].request) # JUndefined
        /\ SessionOf(sessions, procs[p].request).lastPlan = procs[p].plan
        /\ SessionOf(sessions, procs[q].request).lastPlan = procs[q].plan

\* The plan has a step that needs the Telegram link.
NeedsLink(plan) == \E i \in DOMAIN plan.steps : plan.steps[i].blockId = <<"t", "e", "l", "e", "g", "r", "a", "m">>

\* The positions in the log of a call of the calls of this operation.
CallsOf(L, op) == {i \in DOMAIN L.calls : L.calls[i].op = op}

\* The lookups of the link that returned a link, and those that returned none.
LinksFound(L) == {i \in CallsOf(L, "fetchTelegramConnection") : L.calls[i].outcome # JNull}
LinksMissing(L) == {i \in CallsOf(L, "fetchTelegramConnection") : L.calls[i].outcome = JNull}

\* The call has not compiled the plan and has called no workflow backend.
StoppedBeforeCompilation(L) == L.payload = JUndefined /\ WorkflowCalls(L) = <<>>

\* The plan execute resolved: execute resolves one only after it found its
\* workflow client.
HasResolvedPlan(L) == workflowClient /\ L.kind = "execute" /\ L.plan # JUndefined

FromTelegram(request) == request.channel = JStr(<<"t", "e", "l", "e", "g", "r", "a", "m">>)

Maximum(S) == CHOOSE n \in S : \A m \in S : m <= n

\* The planner was called in this call.
PlannerInvoked(L) ==
    CallsOf(L, "generateWorkflowPlan") \cup CallsOf(L, "fetchPlannerContext") # {}

\* The plan the last generateWorkflowPlan call of this call returned.
FreshPlan(L) == L.calls[Maximum(CallsOf(L, "generateWorkflowPlan"))].outcome.value

\* lastPlan of the session of the call's key, undefined without a session.
SessionPlan(L) ==
    IF SessionOf(sessions, L.request) = JUndefined THEN JUndefined
    ELSE SessionOf(sessions, L.request).lastPlan

\* The plan the priority gives an execute call that has resolved one.
PlanByPriority(L) ==
    IF L.request.plan # JUndefined THEN L.request.plan
    ELSE IF HasPrompt(L.request) THEN FreshPlan(L)
    ELSE SessionPlan(L)

\* C15: the plan an execute call runs is the plan argument when one is
\* given, and then the planner is not called and the plan of the session is
\* not used; else the plan the planner made from a non-blank prompt; else
\* lastPlan of the session of the key.
C15_PlanPriority ==
    \A p \in Procs :
        (workflowClient /\ procs[p].kind = "execute") =>
            /\ procs[p].request.plan # JUndefined => ~PlannerInvoked(procs[p])
            /\ (procs[p].request.plan = JUndefined /\ ~HasPrompt(procs[p].request))
                  => ~PlannerInvoked(procs[p])
            /\ procs[p].plan # JUndefined => procs[p].plan = PlanByPriority(procs[p])
            /\ (procs[p].pc = "done" /\ procs[p].result.ok)
                  => SessionPlan(procs[p]) = PlanByPriority(procs[p])

\* An execute call given a plan and a prompt has run the plan given without
\* calling the planner, and has left it in the session.
C15_Witness ==
    \E p \in Procs :
        /\ workflowClient
        /\ procs[p].kind = "execute"
        /\ procs[p].pc = "done"
        /\ procs[p].result.ok
        /\ HasPrompt(procs[p].request)
        /\ procs[p].request.plan = ApiOnly
        /\ ~PlannerInvoked(procs[p])
        /\ Len(Creates(procs[p])) = 1
        /\ SessionPlan(procs[p]) = ApiOnly

\* The field of the connection id of the node at this position of the
\* payload; the backend counts the nodes from 0.
ConnectionIdFieldOf(i) == JStr(<<"n", "o", "d", "e", "s", ".">> \o DecimalDigits(i - 1) \o <<".", "c", "o", "n", "f", "i", "g", ".", "c", "o", "n", "n", "e", "c", "t", "i", "o", "n", "I", "d">>)

\* The details of the response body name the connection id of a TELEGRAM
\* node of the payload.
PointsAtTelegramNode(body, nodes) ==
    \E i \in DOMAIN nodes :
        nodes[i].type = "TELEGRAM" /\ ConnectionIdFieldOf(i) \in FieldsNamed(body)

\* The 400 errors of this model whose details do so.
TelegramNodeErrors(nodes) ==
    {createWorkflowError(400, b[1]) : b \in {c \in ErrorBodies : PointsAtTelegramNode(c[2], nodes)}}

\* The first createWorkflow of the call failed in a way that allows the retry.
MayRetry(L) ==
    /\ L.telegramConnectionId # JUndefined
    /\ Creates(L)[1].outcome.error \in TelegramNodeErrors(Creates(L)[1].arg)

\* The first error is thrown, the payload is as it was sent, and
\* createWorkflow is not called again.
FirstErrorSurfaced(L) ==
    /\ Len(Creates(L)) = 1
    /\ L.payload.nodes = Creates(L)[1].arg
    /\ L.pc = "done"
    /\ ~L.result.ok
    /\ L.result.error.by = Creates(L)[1].outcome.error.by
    /\ L.result.error.message = Creates(L)[1].outcome.error.message

\* C16: createWorkflow is called again only when the first call failed with
\* a 400 whose details name the connectionId of a TELEGRAM node of the
\* payload and the Telegram link is resolved; after every other failure of
\* the first call the first error is thrown, nothing is patched and
\* createWorkflow is not called again.
C16_RetryOnlyForTelegramNode ==
    \A p \in Procs :
        (Creates(procs[p]) # <<>> /\ ~Creates(procs[p])[1].outcome.ok /\ ~MayRetry(procs[p]))
            => FirstErrorSurfaced(procs[p])

(***************************************************************************)
(* Claims on what the tracker of a scheduled workflow does with a run it   *)
(* sees for the first time.                                                *)
(***************************************************************************)
\* The tracker of the scheduled workflow takes this step (the steps of the
\* wait for one execution are not among them).
SchedSteps == schedVars' # schedVars

\* The loop body is at a run of this status which it has not processed yet.
AtNewExecution(status) ==
    /\ schedPc = "iter"
    /\ execIdx <= Len(execList)
    /\ execList[execIdx].id \notin seenExecutionIds
    /\ execList[execIdx].st.status = status

MessagesOf(kind, e) == {i \in 1..Len(sent) : sent[i].kind = kind /\ sent[i].executionId = e}

\* The signing prompt for the run is sent and the wait for it begins.
PromptsAndFollows ==
    /\ Len(sent') = Len(sent) + 1
    /\ sent'[Len(sent')].kind = "signing"
    /\ sent'[Len(sent')].executionId = execList[execIdx].id
    /\ schedPc' = "waiting"
    /\ waitPc' = "poll"
    /\ waitExec' = execList[execIdx].id

\* The tracker leaves the wait only with the terminal status the wait
\* returned; on SUCCESS it asks for the trigger to be cancelled and stops.
LeavesWaitOnTerminal ==
    /\ waitPc = "returned"
    /\ waitResult.status \in Terminal
    /\ IF waitResult.status = "SUCCESS"
       THEN /\ cancels' = Append(cancels, [ok |-> netUp])
            /\ schedPc' = "done"
       ELSE /\ cancels' = cancels
            /\ schedPc' = "iter"

\* C17: the scheduled tracker, at a run it has not seen that waits for a
\* signature, sends the signing prompt and waits for the terminal status of
\* that run, polling no list meanwhile; when that status is SUCCESS it asks
\* the backend to cancel the time block and stops; once stopped it polls no
\* list again and sends no timeout notification.
C17_SignedSuccessStopsTracker ==
    /\ [][(AtNewExecution("WAITING_FOR_SIGNATURE") /\ SchedSteps) => PromptsAndFollows]_vars
    /\ [][(schedPc = "waiting" /\ SchedSteps) => LeavesWaitOnTerminal]_vars
    /\ [][schedPc = "done" => (schedVars' = schedVars /\ sent' = sent /\ cancels' = cancels)]_vars
    /\ [](\A e \in ExecIds : MessagesOf("swapDone", e) # {}
             => (schedPc = "done" /\ TimeoutMsgs = {} /\ Len(cancels) = 1))

\* A run was prompted for, signed and succeeded: the time block was
\* cancelled and the tracker has stopped.
C17_Witness ==
    \E e \in ExecIds :
        /\ schedPc = "done"
        /\ MessagesOf("signing", e) # {}
        /\ MessagesOf("swapDone", e) # {}
        /\ waitExec = e
        /\ waitResult.status = "SUCCESS"
        /\ cancels = <<[ok |-> TRUE]>>

\* One failure notification for the run is sent; the time block is left
\* alone and the loop goes on with the next run of the list.
NotifiesAndGoesOn ==
    /\ Len(sent') = Len(sent) + 1
    /\ sent'[Len(sent')].kind = "runFailed"
    /\ sent'[Len(sent')].executionId = execList[execIdx].id
    /\ cancels' = cancels
    /\ schedPc' = "iter"
    /\ execIdx' = execIdx + 1

\* The tracker has stopped because a swap was seen to succeed or because
\* the window was over.
StoppedForSuccessOrTimeout ==
    /\ sent # <<>>
    /\ sent[Len(sent)].kind \in {"swapDone", "timeout"}
    /\ sent[Len(sent)].kind = "timeout" => sent[Len(sent)].at >= timeoutAt

\* C18: the scheduled tracker, at a run it has not seen whose status is
\* FAILED, sends one failure notification, does not cancel the time block
\* and goes on; it stops only after a success or when the window is over.
C18_FailedRunKeepsWatching ==
    /\ [][(AtNewExecution("FAILED") /\ SchedSteps) => NotifiesAndGoesOn]_vars
    /\ [](\A e \in ExecIds : Cardinality(MessagesOf("runFailed", e)) <= 1)
    /\ [](schedPc = "done" => StoppedForSuccessOrTimeout)

\* Two runs failed, each was notified once, and the tracker watched on till
\* the window was over.
C18_Witness ==
    /\ schedPc = "done"
    /\ \A e \in ExecIds : Cardinality(MessagesOf("runFailed", e)) = 1
    /\ cancels = <<>>
    /\ TimeoutMsgs # {}

\* The poll being walked has come to a run whose id was handled before.
AtSeenExecution ==
    /\ schedPc = "iter"
    /\ execIdx <= Len(execList)
    /\ execList[execIdx].id \in seenExecutionIds

\* The run is passed over: nothing is sent or cancelled, no wait is begun.
PassedOver ==
    /\ sent' = sent
    /\ cancels' = cancels
    /\ seenExecutionIds' = seenExecutionIds
    /\ schedPc' = "iter"
    /\ execIdx' = execIdx + 1

\* Failure notifications about run e, from the list walk or from the wait.
FailureNotices(e) == MessagesOf("runFailed", e) \cup MessagesOf("failed", e)

\* C19: within one scheduled tracker a run id is handled in at most one
\* poll iteration: once in seenExecutionIds it is passed over and never
\* leaves the set, so each id gets at most one signing prompt and at most
\* one failure notification however many polls return it.
C19_EachExecutionHandledOnce ==
    /\ [][(AtSeenExecution /\ SchedSteps) => PassedOver]_vars
    /\ [][(AtNewExecution("FAILED") /\ SchedSteps)
              => execList[execIdx].id \in seenExecutionIds']_vars
    /\ [][seenExecutionIds \subseteq seenExecutionIds']_vars
    /\ [](\A e \in ExecIds : /\ Cardinality(MessagesOf("signing", e)) <= 1
                             /\ Cardinality(FailureNotices(e)) <= 1)

\* A later poll returns a failed run that was notified in an earlier one.
C19_Witness ==
    /\ AtSeenExecution
    /\ execList[execIdx].st.status = "FAILED"
    /\ Cardinality(FailureNotices(execList[execIdx].id)) = 1
    /\ \E i \in 1..Len(sent) : /\ sent[i].kind = "runFailed"
                               /\ sent[i].executionId = execList[execIdx].id
                               /\ sent[i].at < now

\* The single-run wait has returned a SUCCESS status.
WaitReturnedSuccess ==
    /\ waitPc = "returned"
    /\ waitResult # NoExec
    /\ waitResult.status = "SUCCESS"

\* C20: whenever the single-run wait sees SUCCESS, a completion
\* notification for that run has been sent by the time it stops, whether or
\* not the node outputs hold a transaction reference.
C20_SuccessAlwaysNotified ==
    WaitReturnedSuccess => MessagesOf("success", waitExec) # {}
(***************************************************************************)
(* Claims about plan.                                                      *)
(***************************************************************************)
\* The context fetches and the planner invocations of a call.
ContextFetches(L) == CallsOf(L, "fetchPlannerContext")
PlannerCalls(L) == CallsOf(L, "generateWorkflowPlan")

\* The plan the first planner invocation of the call returned.
FirstPlan(L) == L.calls[Minimum(PlannerCalls(L))].outcome.value

\* A plan call has returned.
PlanReturned(L) == L.kind = "plan" /\ L.pc = "done" /\ L.result.ok

\* The last context fetch of the call asked for the fields the first plan
\* reports missing.
RefineFetchIsTargeted(L) ==
    L.calls[Maximum(ContextFetches(L))].arg = MissingFieldsOf(FirstPlan(L))

\* The last context fetch of the call returned a context with keys.
RefineContextFound(L) == L.calls[Maximum(ContextFetches(L))].outcome = "some"

\* C21: a plan call whose first planner result reports missing inputs has
\* made exactly one more context fetch and exactly one more planner
\* invocation when it returns; one whose first result reports none has made
\* neither.
C21_RefinesExactlyOnce ==
    \A p \in Procs :
        PlanReturned(procs[p]) =>
            IF Len(FirstPlan(procs[p]).missingInputs) > 0
            THEN /\ Cardinality(ContextFetches(procs[p])) = 2
                 /\ Cardinality(PlannerCalls(procs[p])) = 2
            ELSE /\ Cardinality(ContextFetches(procs[p])) = 1
                 /\ Cardinality(PlannerCalls(procs[p])) = 1

\* C21 as the code has it: the one further planner invocation is made only
\* when the targeted fetch returned a context with keys; else the first
\* result is returned.  No call makes a third fetch or a third invocation,
\* and the plan returned is the one of the last invocation.
C21_RefinesOnceWhenContextFound ==
    \A p \in Procs :
        /\ Cardinality(ContextFetches(procs[p])) <= 2
        /\ Cardinality(PlannerCalls(procs[p])) <= 2
        /\ PlanReturned(procs[p]) =>
              /\ IF Len(FirstPlan(procs[p]).missingInputs) > 0
                 THEN /\ Cardinality(ContextFetches(procs[p])) = 2
                      /\ RefineFetchIsTargeted(procs[p])
                      /\ Cardinality(PlannerCalls(procs[p]))
                            = IF RefineContextFound(procs[p]) THEN 2 ELSE 1
                 ELSE /\ Cardinality(ContextFetches(procs[p])) = 1
                      /\ Cardinality(PlannerCalls(procs[p])) = 1
              /\ procs[p].result.value.plan = FreshPlan(procs[p])

\* A plan call was refined once and returned a plan that still reports
\* missing inputs.
C21_Witness ==
    \E p \in Procs :
        /\ PlanReturned(procs[p])
        /\ Len(FirstPlan(procs[p]).missingInputs) > 0
        /\ Cardinality(PlannerCalls(procs[p])) = 2
        /\ RefineContextFound(procs[p])
        /\ Len(procs[p].result.value.plan.missingInputs) > 0
(***************************************************************************)
(* Claims on the plan the sanitizer returns.                               *)
(***************************************************************************)
\* The catalog id of each raw block id of the responses that names a block.
CatalogIdOfRaw ==
    { <<<<"t", "e", "l", "e", "g", "r", "a", "m">>, <<"t", "e", "l", "e", "g", "r", "a", "m">>>>,
      <<<<"u", "n", "i", "s", "w", "a", "p">>, <<"u", "n", "i", "s", "w", "a", "p">>>>,
      <<<<" ", "C", "h", "a", "i", "n", "l", "i", "n", "k", " ", "P", "r", "i", "c", "e", "-", "O", "r", "a", "c", "l", "e", " ">>, <<"c", "h", "a", "i", "n", "l", "i", "n", "k">>>>,
      <<<<"T", "i", "m", "e", " ", "B", "l", "o", "c", "k">>, <<"t", "i", "m", "e", "-", "b", "l", "o", "c", "k">>>>,
      <<<<"S", "w", "a", "p">>, <<"u", "n", "i", "s", "w", "a", "p">>>> }

\* A finite set of numbers as the increasing sequence of its elements.
RECURSIVE InOrder(_)
InOrder(S) ==
    IF S = {} THEN <<>> ELSE <<Minimum(S)>> \o InOrder(S \ {Minimum(S)})

\* The array of candidate steps of a payload.
CandidateSteps(payload) ==
    LET h == Get(payload, <<"h", "e", "a", "d", "i", "n", "g", "1", "_", "w", "o", "r", "k", "f", "l", "o", "w">>)
    IN  Get(IF IsObjectValue(h) THEN h ELSE payload, <<"s", "t", "e", "p", "s">>).a

\* The catalog ids of the usable candidate steps of a payload, in the
\* order of the candidates.
ResolvableIdsInOrder(payload) ==
    LET usable == InOrder(UsableSteps(payload))
    IN  [k \in DOMAIN usable |->
            (CHOOSE pair \in CatalogIdOfRaw :
                pair[1] = Get(CandidateSteps(payload)[usable[k]], <<"b", "l", "o", "c", "k", "I", "d">>).s)[2]]

\* The first n elements of a sequence.
FirstOf(q, n) == SubSeq(q, 1, IF Len(q) < n THEN Len(q) ELSE n)

BlockIdsOf(plan) == [i \in DOMAIN plan.steps |-> plan.steps[i].blockId]

\* C22: every plan the sanitizer returns has 1 to 20 steps, each of a
\* catalog block, at most 10 missing inputs and at most 12 notes, and its
\* steps are the first 20 resolvable candidate steps in their order.
C22_PlanWithinLimits ==
    (sanPc = "done" /\ sanResult.ok) =>
        /\ Len(sanResult.value.steps) \in 1..20
        /\ \A i \in DOMAIN sanResult.value.steps :
              sanResult.value.steps[i].blockId \in VALID_PLANNER_BLOCK_IDS
        /\ Len(sanResult.value.missingInputs) <= 10
        /\ Len(sanResult.value.notes) <= 12
        /\ BlockIdsOf(sanResult.value)
              = FirstOf(ResolvableIdsInOrder(parsedPayload), 20)

\* Of 22 candidates, one of them unusable, the first 20 usable were kept.
C22_Witness ==
    /\ sanPc = "done"
    /\ sanResult.ok
    /\ Len(CandidateSteps(parsedPayload)) = 22
    /\ Cardinality(UsableSteps(parsedPayload)) = 21
    /\ Len(sanResult.value.steps) = 20

\* The raw block id in the form the alias table is consulted with.
AliasKeyOf(rawBlockId) == separatorsToUnderscore(toLowerCase(trim(rawBlockId)))

IsExactCatalogId(rawBlockId) == trim(rawBlockId) \in VALID_PLANNER_BLOCK_IDS
IsAliasKey(rawBlockId) == \E pair \in aliasMap : pair[1] = AliasKeyOf(rawBlockId)
AliasTarget(rawBlockId) == (CHOOSE pair \in aliasMap : pair[1] = AliasKeyOf(rawBlockId))[2]

\* The alias key with hyphens for underscores is a catalog id.
IsHyphenatedCatalogId(rawBlockId) ==
    underscoreToHyphen(AliasKeyOf(rawBlockId)) \in VALID_PLANNER_BLOCK_IDS

\* The block id by the two rules stated: the exact catalog id, else the
\* target of the alias; NoBlockId when the step is to be dropped.
StatedBlockId(rawBlockId) ==
    IF IsExactCatalogId(rawBlockId) THEN trim(rawBlockId)
    ELSE IF IsAliasKey(rawBlockId) THEN AliasTarget(rawBlockId)
    ELSE NoBlockId

\* The block id by the three rules of the code.
CodedBlockId(rawBlockId) ==
    IF StatedBlockId(rawBlockId) # NoBlockId THEN StatedBlockId(rawBlockId)
    ELSE IF IsHyphenatedCatalogId(rawBlockId) THEN underscoreToHyphen(AliasKeyOf(rawBlockId))
    ELSE NoBlockId

\* The raw block ids of the candidate steps of a payload that carry one, in
\* the order of the candidates.
RawBlockIds(payload) ==
    LET h == Get(payload, <<"h", "e", "a", "d", "i", "n", "g", "1", "_", "w", "o", "r", "k", "f", "l", "o", "w">>)
        steps == Get(IF IsObjectValue(h) THEN h ELSE payload, <<"s", "t", "e", "p", "s">>)
        withId == IF steps.t # "array" THEN <<>>
                  ELSE SelectSeq(steps.a,
                           LAMBDA v : v.t = "object" /\ Get(v, <<"b", "l", "o", "c", "k", "I", "d">>).t = "string")
    IN  [i \in DOMAIN withId |-> Get(withId[i], <<"b", "l", "o", "c", "k", "I", "d">>).s]

\* The block ids a rule leaves of a sequence of raw block ids.
RECURSIVE KeptByStated(_)
KeptByStated(raws) ==
    IF raws = <<>> THEN <<>>
    ELSE (IF StatedBlockId(Head(raws)) = NoBlockId THEN <<>>
          ELSE <<StatedBlockId(Head(raws))>>) \o KeptByStated(Tail(raws))

RECURSIVE KeptByCoded(_)
KeptByCoded(raws) ==
    IF raws = <<>> THEN <<>>
    ELSE (IF CodedBlockId(Head(raws)) = NoBlockId THEN <<>>
          ELSE <<CodedBlockId(Head(raws))>>) \o KeptByCoded(Tail(raws))

\* C23: the sanitizer keeps a raw block id that is a catalog id, replaces
\* one that is a key of the alias table (lowercased, hyphens and spaces
\* turned into underscores) by the alias target, and drops the step of any
\* other raw block id.
C23_ExactOrAliasElseRejected ==
    (sanPc = "done" /\ sanResult.ok) =>
        BlockIdsOf(sanResult.value) = FirstOf(KeptByStated(RawBlockIds(parsedPayload)), 20)

\* C23 as the code has it: a raw block id that is neither is still kept
\* when its lowercased form with hyphens for the underscores is a catalog
\* id; only then is it rejected.  The raw id is trimmed first.
C23_ExactAliasOrHyphenated ==
    /\ (sanPc = "done" /\ sanResult.ok) =>
          BlockIdsOf(sanResult.value) = FirstOf(KeptByCoded(RawBlockIds(parsedPayload)), 20)
    /\ (sanPc = "done" /\ parsedPayload # JUndefined /\ IsObjectValue(parsedPayload)
          /\ KeptByCoded(RawBlockIds(parsedPayload)) = <<>>) => ~sanResult.ok
    /\ (sanPc = "done" /\ sanResult.ok) =>
          BlockIdsOf(sanResult.value) = FirstOf(ResolvableIdsInOrder(parsedPayload), 20)

\* Of an alias in capitals and a name that is close to an alias but is not
\* one, the first was replaced by its target and the second dropped.
C23_Witness ==
    /\ sanPc = "done"
    /\ sanResult.ok
    /\ RawBlockIds(parsedPayload) = <<<<"S", "w", "a", "p">>, <<"E", "-", "M", "a", "i", "l">>>>
    /\ BlockIdsOf(sanResult.value) = <<<<"u", "n", "i", "s", "w", "a", "p">>>>

\* Texts of the responses above that are not JSON and hold no span from
\* the first { to the last } that is JSON, each with the text left of it
\* once the code fence and the channel marks are taken off.
FreeTexts ==
    { <<<<"I", " ", "c", "a", "n", "n", "o", "t", " ", "h", "e", "l", "p", " ", "{", "w", "i", "t", "h", " ", "t", "h", "a", "t", "}">>, <<"I", " ", "c", "a", "n", "n", "o", "t", " ", "h", "e", "l", "p", " ", "{", "w", "i", "t", "h", " ", "t", "h", "a", "t", "}">>>>,
      <<<<"<", "|", "c", "h", "a", "n", "n", "e", "l", "|", ">", "f", "i", "n", "a", "l", " ", "S", "o", "r", "r", "y", ",", " ", "n", "o", ".">>, <<"S", "o", "r", "r", "y", ",", " ", "n", "o", ".">>>>,
      <<Rep("w", 219) \o <<" ", "z", "z">>, Rep("w", 219) \o <<" ", "z", "z">>>> }

\* The response is one of the free texts, without a json object.
IsFreeText(data) ==
    /\ ~IsObjectValue(data.json)
    /\ data.text # JUndefined
    /\ \E pair \in FreeTexts : pair[1] = data.text.s

PlainTextOf(data) == (CHOOSE pair \in FreeTexts : pair[1] = data.text.s)[2]

\* The excerpt of the raw text the fallback carries: its first 220
\* characters, less the white space they end with.
ExcerptOf(data) == trim(FirstOf(PlainTextOf(data), 220))

\* The plan is the clarification plan but for what quotes the raw text.
IsClarificationPlan(plan) ==
    /\ plan.workflowName = <<"N", "e", "e", "d", " ", "C", "l", "a", "r", "i", "f", "i", "c", "a", "t", "i", "o", "n">>
    /\ Len(plan.steps) = 1
    /\ plan.steps[1].blockId = <<"t", "e", "l", "e", "g", "r", "a", "m">>
    /\ plan.steps[1].purpose = <<"A", "s", "k", " ", "u", "s", "e", "r", " ", "f", "o", "r", " ", "c", "l", "a", "r", "i", "f", "i", "c", "a", "t", "i", "o", "n", " ", "b", "e", "f", "o", "r", "e", " ", "b", "u", "i", "l", "d", "i", "n", "g", " ", "w", "o", "r", "k", "f", "l", "o", "w", ".">>
    /\ Len(plan.missingInputs) = 1
    /\ plan.missingInputs[1].field = <<"i", "n", "t", "e", "n", "t">>

\* execute stops at its check of missingInputs when given the plan.
NeverExecuted(plan) ==
    Gate([IdleCall EXCEPT !.kind = "execute", !.plan = plan]).result
        = Failed(PlanHasMissingInputs)

\* C24: for a free text from which no JSON object can be recovered the
\* pipeline does not fail; the result is the clarification plan, of one
\* notification step and one missing-input entry, the entry holding an
\* excerpt of the raw text; execute refuses the plan.
C24_ExcerptInMissingInput ==
    (sanPc = "done" /\ IsFreeText(llmData)) =>
        /\ sanResult.ok
        /\ IsClarificationPlan(sanResult.value)
        /\ indexOf(sanResult.value.missingInputs[1].question, ExcerptOf(llmData)) # 0
        /\ NeverExecuted(sanResult.value)

\* C24 as the code has it: the missing-input entry is fixed text; the
\* excerpt, of at most 220 characters, is the message of the one note.
C24_ExcerptInNote ==
    (sanPc = "done" /\ IsFreeText(llmData)) =>
        /\ sanResult.ok
        /\ IsClarificationPlan(sanResult.value)
        /\ sanResult.value.missingInputs[1].question
              = <<"P", "l", "e", "a", "s", "e", " ", "c", "l", "a", "r", "i", "f", "y", " ", "w", "h", "a", "t", " ", "y", "o", "u", " ", "w", "a", "n", "t", " ", "t", "o", " ", "a", "c", "h", "i", "e", "v", "e", " ", "(", "t", "r", "i", "g", "g", "e", "r", ",", " ", "a", "c", "t", "i", "o", "n", ",", " ", "c", "o", "n", "s", "t", "r", "a", "i", "n", "t", "s", ")", ".">>
        /\ Len(sanResult.value.notes) = 1
        /\ sanResult.value.notes[1].type = <<"o", "t", "h", "e", "r">>
        /\ sanResult.value.notes[1].message
              = <<"R", "a", "w", " ", "m", "o", "d", "e", "l", " ", "o", "u", "t", "p", "u", "t", " ", "(", "t", "r", "i", "m", "m", "e", "d", ")", ":", " ">> \o ExcerptOf(llmData)
        /\ NeverExecuted(sanResult.value)

\* A free text of more than 220 characters has given the clarification
\* plan with an excerpt cut short.
C24_Witness ==
    /\ sanPc = "done"
    /\ IsFreeText(llmData)
    /\ Len(llmData.text.s) > 220
    /\ sanResult.ok
    /\ IsClarificationPlan(sanResult.value)
    /\ Len(sanResult.value.notes[1].message) = 28 + 219
(***************************************************************************)
(* Claims about the schedule the compiler extracts.                        *)
(***************************************************************************)
\* The hints of the plans above that are positive integers, each with its
\* value.
PositiveIntegerHints ==
    { <<<<"6", "0">>, 60>>, <<<<"3", "6", "0", "0">>, 3600>>, <<<<" ", "9", "0", " ">>, 90>>, <<<<"6", "0", ".", "0">>, 60>> }

IsPositiveIntegerHint(hint) ==
    hint # JUndefined /\ \E pair \in PositiveIntegerHints : pair[1] = hint.s

\* The warnings of a result about the named field of the time-block step.
InvalidWarnings(result, field) ==
    {i \in DOMAIN result.warnings :
        /\ "invalid" \in DOMAIN result.warnings[i]
        /\ result.warnings[i].invalid = field}

\* A plan with a leading time-block step has been compiled.
ScheduledPlanCompiled ==
    /\ cmpPc = "done"
    /\ LinearPlan(cmpOptions.plan)
    /\ IsTimeBlockStep(cmpOptions.plan.steps[1])

\* The value used for a hint that is a positive integer, without warning.
UsedAsGiven(hint, value, result, field) ==
    /\ value = (CHOOSE pair \in PositiveIntegerHints : pair[1] = hint.s)[2]
    /\ InvalidWarnings(result, field) = {}

\* C25: a schedule hint that is a positive integer is used as given; a hint
\* that is invalid or missing gives the default, and a warning is recorded
\* for it; the compilation does not fail for these hints.
C25_WarningForInvalidOrMissing ==
    ScheduledPlanCompiled =>
        /\ cmpResult.ok
        /\ LET interval == Get(HintsOf(cmpOptions.plan.steps[1]), <<"i", "n", "t", "e", "r", "v", "a", "l", "S", "e", "c", "o", "n", "d", "s">>)
               duration == Get(HintsOf(cmpOptions.plan.steps[1]), <<"d", "u", "r", "a", "t", "i", "o", "n", "S", "e", "c", "o", "n", "d", "s">>)
           IN  /\ IF IsPositiveIntegerHint(interval)
                  THEN UsedAsGiven(interval, cmpResult.schedule.intervalSeconds,
                                   cmpResult, "time-block intervalSeconds")
                  ELSE /\ cmpResult.schedule.intervalSeconds = DEFAULT_INTERVAL_SECONDS
                       /\ InvalidWarnings(cmpResult, "time-block intervalSeconds") # {}
               /\ IF IsPositiveIntegerHint(duration)
                  THEN UsedAsGiven(duration, cmpResult.schedule.durationSeconds,
                                   cmpResult, "time-block durationSeconds")
                  ELSE /\ cmpResult.schedule.durationSeconds = DEFAULT_DURATION_SECONDS
                       /\ InvalidWarnings(cmpResult, "time-block durationSeconds") # {}

\* The default is used, with one warning that quotes the hint when there is
\* a hint and with no warning when there is none.
DefaultUsed(hint, value, default, result, field) ==
    /\ value = default
    /\ IF hint = JUndefined THEN InvalidWarnings(result, field) = {}
       ELSE /\ Cardinality(InvalidWarnings(result, field)) = 1
            /\ \A i \in InvalidWarnings(result, field) : result.warnings[i].raw = hint

\* C25 as the code has it: the warning is recorded for a hint that is
\* present and invalid; a missing hint gives the default without warning.
C25_WarningForInvalidOnly ==
    ScheduledPlanCompiled =>
        /\ cmpResult.ok
        /\ LET interval == Get(HintsOf(cmpOptions.plan.steps[1]), <<"i", "n", "t", "e", "r", "v", "a", "l", "S", "e", "c", "o", "n", "d", "s">>)
               duration == Get(HintsOf(cmpOptions.plan.steps[1]), <<"d", "u", "r", "a", "t", "i", "o", "n", "S", "e", "c", "o", "n", "d", "s">>)
           IN  /\ IF IsPositiveIntegerHint(interval)
                  THEN UsedAsGiven(interval, cmpResult.schedule.intervalSeconds,
                                   cmpResult, "time-block intervalSeconds")
                  ELSE DefaultUsed(interval, cmpResult.schedule.intervalSeconds,
                                   DEFAULT_INTERVAL_SECONDS, cmpResult,
                                   "time-block intervalSeconds")
               /\ IF IsPositiveIntegerHint(duration)
                  THEN UsedAsGiven(duration, cmpResult.schedule.durationSeconds,
                                   cmpResult, "time-block durationSeconds")
                  ELSE DefaultUsed(duration, cmpResult.schedule.durationSeconds,
                                   DEFAULT_DURATION_SECONDS, cmpResult,
                                   "time-block durationSeconds")

\* A plan with the interval hint "0" and the duration hint "1.5" has been
\* compiled with both defaults and a warning for each.
C25_Witness ==
    /\ ScheduledPlanCompiled
    /\ cmpResult.ok
    /\ Get(HintsOf(cmpOptions.plan.steps[1]), <<"i", "n", "t", "e", "r", "v", "a", "l", "S", "e", "c", "o", "n", "d", "s">>) = JStr(<<"0">>)
    /\ Get(HintsOf(cmpOptions.plan.steps[1]), <<"d", "u", "r", "a", "t", "i", "o", "n", "S", "e", "c", "o", "n", "d", "s">>) = JStr(<<"1", ".", "5">>)
    /\ cmpResult.schedule.intervalSeconds = DEFAULT_INTERVAL_SECONDS
    /\ cmpResult.schedule.durationSeconds = DEFAULT_DURATION_SECONDS
    /\ InvalidWarnings(cmpResult, "time-block intervalSeconds") # {}
    /\ InvalidWarnings(cmpResult, "time-block durationSeconds") # {}
(***************************************************************************)
(* Claims about the nodes the compiler builds from hints.                  *)
(***************************************************************************)
\* The i-th action step of the compiled plan and its node.
ActionStep(i) == ActionStepsOf(cmpOptions.plan)[i]

ActionNode(i) == cmpResult.workflow.nodes[i + 1]

\* A valid plan has been compiled.
LinearPlanCompiled == cmpPc = "done" /\ LinearPlan(cmpOptions.plan)

\* The i-th action step is a conditional step whose one hint is this condition.
IsConditionStep(i, condition) ==
    /\ ActionStep(i).blockId = <<"i", "f">>
    /\ ActionStep(i).configHints = <<Prop(<<"c", "o", "n", "d", "i", "t", "i", "o", "n">>, condition)>>

\* leftPath, operator and rightValue of a node, and nothing left of the condition.
TripleOf(node) ==
    << Get(node.config, <<"l", "e", "f", "t", "P", "a", "t", "h">>), Get(node.config, <<"o", "p", "e", "r", "a", "t", "o", "r">>),
       Get(node.config, <<"r", "i", "g", "h", "t", "V", "a", "l", "u", "e">>), Get(node.config, <<"c", "o", "n", "d", "i", "t", "i", "o", "n">>) >>

\* Every conditional step whose condition is in the table has the node the
\* table gives for it.
ConditionNodesAre(table) ==
    LinearPlanCompiled =>
        /\ cmpResult.ok
        /\ \A i \in DOMAIN ActionStepsOf(cmpOptions.plan) : \A row \in table :
              IsConditionStep(i, row[1]) =>
                  TripleOf(ActionNode(i)) = <<JStr(row[2]), JStr(row[3]), JStr(row[4]), JUndefined>>

\* The conditions with a left side that is kept as written by both readings.
PlainConditions ==
    { <<<<"c", "o", "u", "n", "t", " ", ">", " ", "3">>, <<"c", "o", "u", "n", "t">>, <<"g", "t">>, <<"3">>>>,
      <<<<"b", "a", "l", "a", "n", "c", "e", " ", "!", "=", " ", "0">>, <<"b", "a", "l", "a", "n", "c", "e">>, <<"n", "o", "t", "E", "q", "u", "a", "l", "s">>, <<"0">>>>,
      <<<<"x", " ", "=", " ", "1">>, <<"x">>, <<"e", "q", "u", "a", "l", "s">>, <<"1">>>>,
      <<<<"E", "T", "H", "/", "U", "S", "D", " ", "<", " ", "1", "7", "5", "0">>, <<"f", "o", "r", "m", "a", "t", "t", "e", "d", "A", "n", "s", "w", "e", "r">>, <<"l", "t">>, <<"1", "7", "5", "0">>>>,
      <<<<"w", "h", "e", "n", " ", "i", "t", " ", "d", "i", "p", "s">>, <<>>, <<"e", "q", "u", "a", "l", "s">>, <<>>>> }

\* C27: a condition is split around its comparison operator into left side,
\* canonical operator and right side; a left side that is a pair symbol
\* becomes the oracle output key and any other left side is kept as written,
\* so "price >= 10" gives leftPath "price"; a condition without an operator
\* gives the empty triple and the compilation does not fail.
C27_OnlyPairBecomesOutputKey ==
    ConditionNodesAre(PlainConditions
                      \cup { <<<<"p", "r", "i", "c", "e", " ", ">", "=", " ", "1", "0">>, <<"p", "r", "i", "c", "e">>, <<"g", "t", "e">>, <<"1", "0">>>>,
                             <<<<"E", "T", "H", "U", "S", "D", " ", "=", "=", " ", "5">>, <<"E", "T", "H", "U", "S", "D">>, <<"e", "q", "u", "a", "l", "s">>, <<"5">>>> })

\* C27 as the code has it: a left side that is a pair symbol, the word
\* "price" or a symbol ending in USD becomes the oracle output key; the right
\* side ends where the matched operator text occurs again.
C27_PriceFeedPathBecomesOutputKey ==
    ConditionNodesAre(PlainConditions
                      \cup { <<<<"p", "r", "i", "c", "e", " ", ">", "=", " ", "1", "0">>, <<"f", "o", "r", "m", "a", "t", "t", "e", "d", "A", "n", "s", "w", "e", "r">>, <<"g", "t", "e">>, <<"1", "0">>>>,
                             <<<<"E", "T", "H", "U", "S", "D", " ", "=", "=", " ", "5">>, <<"f", "o", "r", "m", "a", "t", "t", "e", "d", "A", "n", "s", "w", "e", "r">>, <<"e", "q", "u", "a", "l", "s">>, <<"5">>>>,
                             <<<<" ", "a", "<", "=", "b", " ", "<", "=", " ", "c", " ">>, <<"a">>, <<"l", "t", "e">>, <<"b">>>> })

\* The condition "price >= 10" has been compiled to a node that reads the
\* oracle output key.
C27_Witness ==
    /\ LinearPlanCompiled
    /\ cmpResult.ok
    /\ \E i \in DOMAIN ActionStepsOf(cmpOptions.plan) :
          /\ IsConditionStep(i, <<"p", "r", "i", "c", "e", " ", ">", "=", " ", "1", "0">>)
          /\ Get(ActionNode(i).config, <<"l", "e", "f", "t", "P", "a", "t", "h">>) = JStr(<<"f", "o", "r", "m", "a", "t", "t", "e", "d", "A", "n", "s", "w", "e", "r">>)
          /\ Get(ActionNode(i).config, <<"o", "p", "e", "r", "a", "t", "o", "r">>) = JStr(<<"g", "t", "e">>)
\* The amounts of the plans that are non-negative decimals, each with its
\* integer part and its fractional digits.
DecimalAmounts ==
    { <<<<"1", ".", "5">>, <<"1">>, <<"5">>>>, <<<<"0", ".", "1">>, <<"0">>, <<"1">>>>, <<<<"1", ".", "2", "3", "4", "5", "6", "7", "8">>, <<"1">>, <<"2", "3", "4", "5", "6", "7", "8">>>>,
      <<<<"2">>, <<"2">>, <<>>>>, <<<<"0", ".", "2", "5">>, <<"0">>, <<"2", "5">>>> }

\* The first d digits of a fraction, zeros where it has none.
FirstDigits(fraction, d) ==
    [i \in 1..d |-> IF i <= Len(fraction) THEN fraction[i] ELSE "0"]

\* The digits of an integer without the zeros in front.
AsInteger(digits) ==
    IF StripLeadingZeros(digits) = <<>> THEN <<"0">> ELSE StripLeadingZeros(digits)

\* The i-th action step is a swap step with this amount hint.
IsSwapOf(i, amount) ==
    /\ ActionStep(i).blockId \in {<<"u", "n", "i", "s", "w", "a", "p">>, <<"o", "n", "e", "i", "n", "c", "h">>}
    /\ Get(HintsOf(ActionStep(i)), <<"a", "m", "o", "u", "n", "t">>) = JStr(amount)

SwapInput(i) == Get(ActionNode(i).config, <<"i", "n", "p", "u", "t", "C", "o", "n", "f", "i", "g">>)

\* C30: a non-negative decimal amount with integer part I and fractional
\* digits F becomes, for a source token of d decimals, the integer whose
\* digits are I followed by the first d digits of F, zero-padded; digits
\* beyond d are cut off, not rounded.
C30_AmountTruncatedToDecimals ==
    (LinearPlanCompiled /\ cmpResult.ok) =>
        \A i \in DOMAIN ActionStepsOf(cmpOptions.plan) : \A row \in DecimalAmounts :
            IsSwapOf(i, row[1]) =>
                AsInteger(Get(SwapInput(i), <<"a", "m", "o", "u", "n", "t">>).s)
                    = AsInteger(row[2] \o FirstDigits(row[3],
                                    Get(Get(SwapInput(i), <<"s", "o", "u", "r", "c", "e", "T", "o", "k", "e", "n">>), <<"d", "e", "c", "i", "m", "a", "l", "s">>).n))
\* The hints of the plans above that name a chain and a token of the table.
KnownChainHints == {JUndefined, JStr(<<"a", "r", "b", "i", "t", "r", "u", "m">>), JStr(<<"b", "a", "s", "e">>)}

KnownSymbolHints == {JStr(<<"U", "S", "D", "C">>), JStr(<<"W", "E", "T", "H">>), JStr(<<"u", "s", "d", "c">>), JStr(<<"w", "e", "t", "h">>)}

\* The amounts of the plans above that are no non-negative number.
UnparsableAmountHints == {JUndefined, JStr(<<"a", " ", "l", "o", "t">>), JStr(<<"-", "2">>)}

Hint(i, key) == Get(HintsOf(ActionStep(i)), key)

HasWarning(key, value) ==
    \E w \in DOMAIN cmpResult.warnings :
        /\ key \in DOMAIN cmpResult.warnings[w]
        /\ cmpResult.warnings[w][key] = value

\* The token of a swap node is the placeholder: no address, 18 decimals.
IsPlaceholderToken(token) ==
    /\ Get(token, <<"a", "d", "d", "r", "e", "s", "s">>) = JStr(<<"0", "x", "0", "0", "0", "0", "0", "0", "0", "0", "0", "0", "0", "0", "0", "0", "0", "0", "0", "0", "0", "0", "0", "0", "0", "0", "0", "0", "0", "0", "0", "0", "0", "0", "0", "0", "0", "0", "0", "0", "0", "0">>)
    /\ Get(token, <<"d", "e", "c", "i", "m", "a", "l", "s">>) = JNum(18)

IsKnownSwapHint(i, first, second) ==
    /\ Hint(i, <<"c", "h", "a", "i", "n">>) \in KnownChainHints
    /\ (IF Hint(i, first) # JUndefined THEN Hint(i, first) ELSE Hint(i, second))
           \in KnownSymbolHints

\* A swap step: an unknown chain or token symbol gives the placeholder
\* token and a warning, an amount that is no number gives the amount 0.
SwapDegrades(i) ==
    /\ ~IsKnownSwapHint(i, <<"f", "r", "o", "m", "T", "o", "k", "e", "n">>, <<"s", "o", "u", "r", "c", "e", "T", "o", "k", "e", "n">>) =>
           /\ IsPlaceholderToken(Get(SwapInput(i), <<"s", "o", "u", "r", "c", "e", "T", "o", "k", "e", "n">>))
           /\ \E w \in DOMAIN cmpResult.warnings :
                  "unknownTokens" \in DOMAIN cmpResult.warnings[w]
    /\ ~IsKnownSwapHint(i, <<"t", "o", "T", "o", "k", "e", "n">>, <<"d", "e", "s", "t", "i", "n", "a", "t", "i", "o", "n", "T", "o", "k", "e", "n">>) =>
           /\ IsPlaceholderToken(Get(SwapInput(i), <<"d", "e", "s", "t", "i", "n", "a", "t", "i", "o", "n", "T", "o", "k", "e", "n">>))
           /\ \E w \in DOMAIN cmpResult.warnings :
                  "unknownTokens" \in DOMAIN cmpResult.warnings[w]
    /\ Hint(i, <<"a", "m", "o", "u", "n", "t">>) \in UnparsableAmountHints =>
           AsInteger(Get(SwapInput(i), <<"a", "m", "o", "u", "n", "t">>).s) = <<"0">>

\* A Chainlink step whose feed is not in the table of its chain reads the
\* default aggregator, with a warning.
OracleDegrades(i) ==
    Hint(i, <<"f", "e", "e", "d">>) = JStr(<<"D", "O", "G", "E", "/", "U", "S", "D">>) =>
        /\ Get(ActionNode(i).config, <<"a", "g", "g", "r", "e", "g", "a", "t", "o", "r", "A", "d", "d", "r", "e", "s", "s">>)
               = JStr(<<"0", "x", "6", "3", "9", "F", "e", "6", "a", "b", "5", "5", "C", "9", "2", "1", "f", "7", "4", "e", "7", "f", "a", "c", "1", "e", "e", "9", "6", "0", "C", "0", "B", "6", "2", "9", "3", "b", "a", "6", "1", "2">>)
        /\ HasWarning("missing", "aggregatorAddress")

\* A message step without a connection id from the hints or the caller
\* gives a warning.
TelegramDegrades(i) ==
    (Hint(i, <<"c", "o", "n", "n", "e", "c", "t", "i", "o", "n", "I", "d">>) = JUndefined /\ cmpOptions.telegramConnectionId = JUndefined)
        => HasWarning("missing", "connectionId")

\* A conditional step whose condition has no operator gives the empty triple.
ConditionDegrades(i) ==
    IsConditionStep(i, <<"w", "h", "e", "n", " ", "i", "t", " ", "d", "i", "p", "s">>) =>
        TripleOf(ActionNode(i)) = <<JStr(<<>>), JStr(<<"e", "q", "u", "a", "l", "s">>), JStr(<<>>), JUndefined>>

StepDegrades(i) ==
    CASE ActionStep(i).blockId \in {<<"u", "n", "i", "s", "w", "a", "p">>, <<"o", "n", "e", "i", "n", "c", "h">>} -> SwapDegrades(i)
      [] ActionStep(i).blockId = <<"c", "h", "a", "i", "n", "l", "i", "n", "k">> -> OracleDegrades(i)
      [] ActionStep(i).blockId = <<"t", "e", "l", "e", "g", "r", "a", "m">> -> TelegramDegrades(i)
      [] ActionStep(i).blockId = <<"i", "f">> -> ConditionDegrades(i)
      [] OTHER -> TRUE

WORKFLOW_MAX_RETRIES == 2
WORKFLOW_RETRY_BASE_DELAY_MS == 1000

\* What fetchWithTimeout gives: a response, or the error fetch rejects with.
Response(status, text) == [kind |-> "response", status |-> status, text |-> text]

Rejected(name, message) == [kind |-> "error", name |-> name, message |-> message]

Slept(ms) == [kind |-> "sleep", ms |-> ms]

ErrorOf(name, message) == [name |-> name, message |-> message]

isRetryableWorkflowError(error) ==
    IF includes(error.message, <<"B", "a", "c", "k", "e", "n", "d", " ", "b", "a", "s", "e", " ", "U", "R", "L", " ", "i", "s", " ", "n", "o", "t", " ", "c", "o", "n", "f", "i", "g", "u", "r", "e", "d">>) THEN FALSE
    ELSE IF /\ includes(error.message, <<"i", "n", "v", "a", "l", "i", "d">>)
            /\ ~includes(error.message, <<"5", "0", "2">>)
            /\ ~includes(error.message, <<"5", "0", "3">>) THEN FALSE
    ELSE IF \/ includes(error.message, <<"4", "0", "0">>) \/ includes(error.message, <<"4", "0", "1">>)
            \/ includes(error.message, <<"4", "0", "3">>) \/ includes(error.message, <<"4", "0", "4">>) THEN FALSE
    ELSE IF includes(error.message, <<"5", "0", "2">>) \/ includes(error.message, <<"5", "0", "3">>) THEN TRUE
    ELSE IF \/ error.name = <<"A", "b", "o", "r", "t", "E", "r", "r", "o", "r">>
            \/ includes(error.message, <<"a", "b", "o", "r", "t">>) \/ includes(error.message, <<"a", "b", "o", "r", "t", "e", "d">>)
            \/ includes(error.message, <<"t", "i", "m", "e", "d", " ", "o", "u", "t">>) \/ includes(error.message, <<"t", "i", "m", "e", "o", "u", "t">>)
         THEN TRUE
    ELSE IF \/ includes(error.message, <<"E", "C", "O", "N", "N", "R", "E", "S", "E", "T">>) \/ includes(error.message, <<"E", "N", "O", "T", "F", "O", "U", "N", "D">>)
            \/ includes(error.message, <<"E", "T", "I", "M", "E", "D", "O", "U", "T">>) \/ includes(error.message, <<"E", "C", "O", "N", "N", "R", "E", "F", "U", "S", "E", "D">>)
         THEN TRUE
    ELSE FALSE

\* response.ok
IsOkStatus(status) == status >= 200 /\ status <= 299

createdFrom(payload) ==
    IF \/ ~Truthy(payload)
       \/ Get(payload, <<"s", "u", "c", "c", "e", "s", "s">>) # JBool(TRUE)
       \/ ~Truthy(Get(Get(payload, <<"d", "a", "t", "a">>), <<"i", "d">>))
    THEN [ok |-> FALSE,
          error |-> ErrorOf(<<"E", "r", "r", "o", "r">>, <<"B", "a", "c", "k", "e", "n", "d", " ", "r", "e", "s", "p", "o", "n", "s", "e", " ", "f", "o", "r", " ", "c", "r", "e", "a", "t", "e", " ", "w", "o", "r", "k", "f", "l", "o", "w", " ", "i", "s", " ", "i", "n", "v", "a", "l", "i", "d", ".">>)]
    ELSE [ok |-> TRUE, id |-> Get(Get(payload, <<"d", "a", "t", "a">>), <<"i", "d">>)]

\* The body of the try block of one attempt: the response returned, or the
\* error caught.
createAttempt(outcome) ==
    IF outcome.kind = "error"
    THEN [ok |-> FALSE, error |-> ErrorOf(outcome.name, outcome.message)]
    ELSE IF ~IsOkStatus(outcome.status)
    THEN [ok |-> FALSE,
          error |-> ErrorOf(<<"E", "r", "r", "o", "r">>, <<"F", "a", "i", "l", "e", "d", " ", "t", "o", " ", "c", "r", "e", "a", "t", "e", " ", "w", "o", "r", "k", "f", "l", "o", "w", ":", " ">>
                                       \o DecimalDigits(outcome.status) \o <<" ">> \o outcome.text)]
    ELSE createdFrom(safeJsonParse(outcome.text))

\* What the workflow backend and the network do with a request.
FetchOutcomes ==
    { Response(200, <<"{", "\"", "s", "u", "c", "c", "e", "s", "s", "\"", ":", "t", "r", "u", "e", ",", "\"", "d", "a", "t", "a", "\"", ":", "{", "\"", "i", "d", "\"", ":", "\"", "w", "f", "-", "1", "\"", "}", "}">>),
      Response(200, <<"{", "\"", "s", "u", "c", "c", "e", "s", "s", "\"", ":", "f", "a", "l", "s", "e", "}">>),
      Response(200, <<"<", "h", "t", "m", "l", ">">>),
      Response(400, <<"B", "a", "d", " ", "R", "e", "q", "u", "e", "s", "t">>),
      Response(401, <<"U", "n", "a", "u", "t", "h", "o", "r", "i", "z", "e", "d">>),
      Response(403, <<"F", "o", "r", "b", "i", "d", "d", "e", "n">>),
      Response(404, <<"N", "o", "t", " ", "F", "o", "u", "n", "d">>),
      Response(429, <<"T", "o", "o", " ", "M", "a", "n", "y", " ", "R", "e", "q", "u", "e", "s", "t", "s">>),
      Response(500, <<"I", "n", "t", "e", "r", "n", "a", "l", " ", "S", "e", "r", "v", "e", "r", " ", "E", "r", "r", "o", "r">>),
      Response(502, <<"B", "a", "d", " ", "G", "a", "t", "e", "w", "a", "y">>),
      Response(503, <<"S", "e", "r", "v", "i", "c", "e", " ", "U", "n", "a", "v", "a", "i", "l", "a", "b", "l", "e">>),
      Response(504, <<"G", "a", "t", "e", "w", "a", "y", " ", "T", "i", "m", "e", "o", "u", "t">>),
      Rejected(<<"A", "b", "o", "r", "t", "E", "r", "r", "o", "r">>, <<"T", "h", "i", "s", " ", "o", "p", "e", "r", "a", "t", "i", "o", "n", " ", "w", "a", "s", " ", "a", "b", "o", "r", "t", "e", "d">>),
      Rejected(<<"E", "r", "r", "o", "r">>, <<"r", "e", "a", "d", " ", "E", "C", "O", "N", "N", "R", "E", "S", "E", "T">>),
      Rejected(<<"E", "r", "r", "o", "r">>, <<"g", "e", "t", "a", "d", "d", "r", "i", "n", "f", "o", " ", "E", "N", "O", "T", "F", "O", "U", "N", "D", " ", "b", "a", "c", "k", "e", "n", "d">>),
      Rejected(<<"T", "y", "p", "e", "E", "r", "r", "o", "r">>, <<"f", "e", "t", "c", "h", " ", "f", "a", "i", "l", "e", "d">>),
      Response(503, <<"u", "p", "s", "t", "r", "e", "a", "m", " ", "r", "e", "t", "u", "r", "n", "e", "d", " ", "4", "0", "4">>),
      Rejected(<<"E", "r", "r", "o", "r">>, <<"c", "o", "n", "n", "e", "c", "t", " ", "E", "T", "I", "M", "E", "D", "O", "U", "T", " ", "1", "0", ".", "0", ".", "0", ".", "1", ":", "4", "4", "3">>),
      Response(400, <<"{", "\"", "e", "r", "r", "o", "r", "\"", ":", "{", "\"", "d", "e", "t", "a", "i", "l", "s", "\"", ":", "[", "{", "\"", "f", "i", "e", "l", "d", "\"", ":", "\"", "n", "o", "d", "e", "s", ".", "0", ".", "c", "o", "n", "f", "i", "g", ".", "c", "o", "n", "n", "e", "c", "t", "i", "o", "n", "I", "d", "\"", "}", "]", "}", "}">>),
      Response(400, <<"{", "\"", "e", "r", "r", "o", "r", "\"", ":", "{", "\"", "d", "e", "t", "a", "i", "l", "s", "\"", ":", "[", "{", "\"", "f", "i", "e", "l", "d", "\"", ":", "\"", "n", "o", "d", "e", "s", ".", "1", ".", "c", "o", "n", "f", "i", "g", ".", "c", "h", "a", "t", "I", "d", "\"", "}", "]", "}", "}">>),
      Response(400, <<"{", "\"", "e", "r", "r", "o", "r", "\"", ":", "{", "\"", "d", "e", "t", "a", "i", "l", "s", "\"", ":", "[", "n", "u", "l", "l", "]", "}", "}">>) }

Pow2(n) == IF n = 0 THEN 1 ELSE IF n = 1 THEN 2 ELSE 4

\* createWorkflow up to the loop.
CreateBegin ==
    /\ createPc = "call"
    /\ IF ~baseUrl
       THEN /\ createPc' = "thrown"
            /\ createResult' = ErrorOf(<<"E", "r", "r", "o", "r">>,
                                  <<"B", "a", "c", "k", "e", "n", "d", " ", "b", "a", "s", "e", " ", "U", "R", "L", " ", "i", "s", " ", "n", "o", "t", " ", "c", "o", "n", "f", "i", "g", "u", "r", "e", "d", " ", "f", "o", "r", " ", "W", "o", "r", "k", "f", "l", "o", "w", "C", "l", "i", "e", "n", "t", ".">>)
       ELSE /\ createPc' = "fetch"
            /\ UNCHANGED createResult
    /\ UNCHANGED <<baseUrl, attempt, createLog, contextVars, llmVars>>

AfterAttempt(outcome, r) ==
    /\ createLog' = Append(createLog, outcome)
    /\ IF r.ok
       THEN createPc' = "returned" /\ createResult' = r
       ELSE /\ createResult' = r.error
            /\ createPc' = IF ~isRetryableWorkflowError(r.error) \/ attempt >= WORKFLOW_MAX_RETRIES
                           THEN "thrown" ELSE "sleep"

\* One turn of the loop up to its return, throw or sleep.
CreateFetch ==
    /\ createPc = "fetch"
    /\ \E outcome \in FetchOutcomes : AfterAttempt(outcome, createAttempt(outcome))
    /\ UNCHANGED <<baseUrl, attempt, contextVars, llmVars>>

\* await sleep(delay); attempt += 1
CreateSleep_NoCount ==
    /\ createPc = "sleep"
    /\ createLog' = Append(createLog, Slept(WORKFLOW_RETRY_BASE_DELAY_MS))
    /\ createPc' = "fetch"
    /\ UNCHANGED <<baseUrl, attempt, createResult, contextVars, llmVars>>
CreateSleep ==
    /\ createPc = "sleep"
    /\ createLog' = Append(createLog, Slept(WORKFLOW_RETRY_BASE_DELAY_MS * Pow2(attempt - 1)))
    /\ attempt' = attempt + 1
    /\ createPc' = "fetch"
    /\ UNCHANGED <<baseUrl, createResult, contextVars, llmVars>>

\* execute has patched the payload and calls createWorkflow again.
Patched == [kind |-> "patched"]

\* The connection id execute holds when createWorkflow throws.
ConnectionIds == {JUndefined, JStr(<<"c", "o", "n", "n", "-", "1">>)}

\* The TypeError of reading a property of null.
PatchTypeError == ErrorOf(<<"T", "y", "p", "e", "E", "r", "r", "o", "r">>, <<"C", "a", "n", "n", "o", "t", " ", "r", "e", "a", "d", " ", "p", "r", "o", "p", "e", "r", "t", "i", "e", "s", " ", "o", "f", " ", "n", "u", "l", "l", " ", "(", "r", "e", "a", "d", "i", "n", "g", " ", "'", "f", "i", "e", "l", "d", "'", ")">>)

\* execute after the throw of its first createWorkflow: the second call
\* when the payload was patched, else the throw of the first error.
AfterPatch(patch) ==
    IF patch.returns = "true"
    THEN /\ createLog' = Append(createLog, Patched)
         /\ attempt' = 1
         /\ createPc' = "call"
         /\ UNCHANGED createResult
    ELSE /\ createPc' = "rethrown"
         /\ createResult' = IF patch.returns = "throws" THEN PatchTypeError ELSE createResult
         /\ UNCHANGED <<createLog, attempt>>

\* catch (firstError) of execute around createWorkflow
CreateCaught ==
    /\ createPc = "thrown"
    /\ \A i \in DOMAIN createLog : createLog[i] # Patched
    /\ \E telegramConnectionId \in ConnectionIds :
          AfterPatch(tryPatchWorkflowPayloadFromValidationError(createResult, <<>>,
                                                                telegramConnectionId))
    /\ UNCHANGED <<baseUrl, contextVars, llmVars>>

CreateInit ==
    /\ MonitorOff
    /\ SanOff
    /\ CmpOff
    /\ SvcOff
    /\ ContextOff
    /\ LlmOff
    /\ baseUrl \in BOOLEAN
    /\ createPc = "call"
    /\ attempt = 1
    /\ createLog = <<>>
    /\ createResult = JUndefined

CreateNext ==
    \/ (CreateBegin /\ UNCHANGED <<monitorVars, sanVars, cmpVars, svcVars>>)
    \/ (CreateFetch /\ UNCHANGED <<monitorVars, sanVars, cmpVars, svcVars>>)
    \/ (CreateSleep /\ UNCHANGED <<monitorVars, sanVars, cmpVars, svcVars>>)
    \/ (CreateCaught /\ UNCHANGED <<monitorVars, sanVars, cmpVars, svcVars>>)

SpecCreate == CreateInit /\ [][CreateNext]_vars

(***************************************************************************)
(* Claims about the retries of the workflow client.                        *)
(***************************************************************************)
\* The requests so far, without the sleeps.
Fetches == SelectSeq(createLog, LAMBDA e : e.kind \in {"response", "error"})

\* The failures the classifier is to retry: a server error, a timeout, a
\* connection reset.
IsRetryableFailure(outcome) ==
    \/ outcome.kind = "response" /\ outcome.status >= 500 /\ outcome.status <= 599
    \/ outcome.kind = "error" /\ outcome.name = <<"A", "b", "o", "r", "t", "E", "r", "r", "o", "r">>
    \/ outcome.kind = "error" /\ outcome.message = <<"r", "e", "a", "d", " ", "E", "C", "O", "N", "N", "R", "E", "S", "E", "T">>

\* The failures it is not to retry.
IsFinalFailure(outcome) ==
    outcome.kind = "response" /\ outcome.status \in {400, 401, 403, 404}

\* The call has just had the outcome of its k-th request.
JustFetched(k) == Len(Fetches) = k /\ createPc \in {"returned", "thrown", "sleep"}

\* C28: a server error (any 5xx status), a timeout and a connection reset
\* are retried, and a bad request (400), an auth failure (401, 403), a
\* missing resource (404) and a missing base URL are thrown at once.
C28_ServerErrorsAreRetried ==
    /\ (createPc # "call" /\ ~baseUrl) => (createPc \in {"thrown", "rethrown"} /\ createLog = <<>>)
    /\ \A k \in DOMAIN Fetches :
          /\ (JustFetched(k) /\ IsFinalFailure(Fetches[k])) => createPc = "thrown"
          /\ (JustFetched(k) /\ IsRetryableFailure(Fetches[k]) /\ k < WORKFLOW_MAX_RETRIES)
                 => createPc = "sleep"
(***************************************************************************)
(* Backend context client: fetchPlannerContext, and plan up to its first   *)
(* call of the planner.                                                    *)
(***************************************************************************)
SAFE_CONTEXT_KEYS ==
    { <<"u", "s", "e", "r", "A", "d", "d", "r", "e", "s", "s">>, <<"p", "r", "i", "v", "y", "U", "s", "e", "r", "I", "d">>, <<"t", "e", "l", "e", "g", "r", "a", "m", "C", "h", "a", "t", "I", "d">>, <<"p", "r", "e", "f", "e", "r", "r", "e", "d", "C", "h", "a", "i", "n", "s">>,
      <<"p", "r", "e", "f", "e", "r", "r", "e", "d", "T", "o", "k", "e", "n", "s">>, <<"r", "i", "s", "k", "P", "r", "o", "f", "i", "l", "e">>, <<"s", "l", "i", "p", "p", "a", "g", "e", "B", "p", "s">> }

IsContextValue(v) ==
    \/ v.t \in {"string", "number", "boolean"}
    \/ (v.t = "array" /\ \A i \in DOMAIN v.a : v.a[i].t = "string")

\* Object.entries(input) filtered; an array has no entry under a safe key.
sanitizePlannerContext(input) ==
    JObj(SelectSeq(IF input.t = "object" THEN input.f ELSE <<>>,
                   LAMBDA e : e.k \in SAFE_CONTEXT_KEYS /\ IsContextValue(e.v)))

contextCandidate(dataRecord) ==
    IF Get(dataRecord, <<"c", "o", "n", "t", "e", "x", "t">>).t \in {"object", "array"}
    THEN Get(dataRecord, <<"c", "o", "n", "t", "e", "x", "t">>) ELSE dataRecord

contextOfPayload(payload) ==
    IF \/ ~Truthy(payload)
       \/ Get(payload, <<"s", "u", "c", "c", "e", "s", "s">>) # JBool(TRUE)
       \/ Get(payload, <<"d", "a", "t", "a">>).t \notin {"object", "array"}
    THEN [threw |-> FALSE, context |-> JNull, retryable |-> FALSE]
    ELSE [threw |-> FALSE,
          context |-> sanitizePlannerContext(contextCandidate(Get(payload, <<"d", "a", "t", "a">>))),
          retryable |-> FALSE]

\* run(): what it returns, or the error it rejects with.
run(outcome) ==
    IF outcome.kind = "error" THEN [threw |-> TRUE, message |-> outcome.message]
    ELSE IF ~IsOkStatus(outcome.status)
    THEN [threw |-> FALSE, context |-> JNull, retryable |-> outcome.status >= 500]
    ELSE contextOfPayload(safeJsonParse(outcome.text))

\* networkRetryable of the catch block.
networkRetryable(message) ==
    \/ includes(message, <<"a", "b", "o", "r", "t">>) \/ includes(message, <<"t", "i", "m", "e", "o", "u", "t">>)
    \/ includes(message, <<"E", "C", "O", "N", "N", "R", "E", "S", "E", "T">>) \/ includes(message, <<"E", "N", "O", "T", "F", "O", "U", "N", "D">>)
    \/ includes(message, <<"E", "T", "I", "M", "E", "D", "O", "U", "T">>)

\* What the backend and the network do with a context request.
ContextRunOutcomes ==
    { Response(200, <<"{", "\"", "s", "u", "c", "c", "e", "s", "s", "\"", ":", "t", "r", "u", "e", ",", "\"", "d", "a", "t", "a", "\"", ":", "{", "\"", "c", "o", "n", "t", "e", "x", "t", "\"", ":", "{", "\"", "u", "s", "e", "r", "A", "d", "d", "r", "e", "s", "s", "\"", ":", "\"", "0", "x", "a", "b", "c", "\"", ",", "\"", "a", "p", "i", "K", "e", "y", "\"", ":", "\"", "k", "\"", "}", "}", "}">>),
      Response(200, <<"{", "\"", "s", "u", "c", "c", "e", "s", "s", "\"", ":", "t", "r", "u", "e", ",", "\"", "d", "a", "t", "a", "\"", ":", "{", "\"", "p", "r", "e", "f", "e", "r", "r", "e", "d", "C", "h", "a", "i", "n", "s", "\"", ":", "[", "\"", "B", "A", "S", "E", "\"", "]", "}", "}">>),
      Response(200, <<"{", "\"", "s", "u", "c", "c", "e", "s", "s", "\"", ":", "t", "r", "u", "e", ",", "\"", "d", "a", "t", "a", "\"", ":", "\"", "n", "o", "n", "e", "\"", "}">>),
      Response(200, <<"{", "\"", "s", "u", "c", "c", "e", "s", "s", "\"", ":", "f", "a", "l", "s", "e", "}">>),
      Response(200, <<"<", "h", "t", "m", "l", ">">>),
      Response(404, <<"N", "o", "t", " ", "F", "o", "u", "n", "d">>),
      Response(500, <<"I", "n", "t", "e", "r", "n", "a", "l", " ", "S", "e", "r", "v", "e", "r", " ", "E", "r", "r", "o", "r">>),
      Response(503, <<"S", "e", "r", "v", "i", "c", "e", " ", "U", "n", "a", "v", "a", "i", "l", "a", "b", "l", "e">>),
      Rejected(<<"A", "b", "o", "r", "t", "E", "r", "r", "o", "r">>, <<"T", "h", "i", "s", " ", "o", "p", "e", "r", "a", "t", "i", "o", "n", " ", "w", "a", "s", " ", "a", "b", "o", "r", "t", "e", "d">>),
      Rejected(<<"E", "r", "r", "o", "r">>, <<"r", "e", "a", "d", " ", "E", "C", "O", "N", "N", "R", "E", "S", "E", "T">>),
      Rejected(<<"T", "y", "p", "e", "E", "r", "r", "o", "r">>, <<"f", "e", "t", "c", "h", " ", "f", "a", "i", "l", "e", "d">>) }

ContextReturns(context) ==
    /\ contextPc' = "returned"
    /\ contextResult' = context

\* fetchPlannerContext up to its first run().
ContextBegin ==
    /\ contextPc = "call"
    /\ IF ~baseUrl THEN ContextReturns(JNull)
       ELSE contextPc' = "run" /\ UNCHANGED contextResult
    /\ UNCHANGED <<baseUrl, runs, supplementalContext, createVars, llmVars>>

\* After a run() inside the try block: the catch block when it threw.
AfterRunInTry(result, first) ==
    IF result.threw
    THEN IF networkRetryable(result.message)
         THEN contextPc' = "sleepCatch" /\ UNCHANGED contextResult
         ELSE ContextReturns(JNull)
    ELSE IF first /\ result.context = JNull /\ result.retryable
         THEN contextPc' = "sleep" /\ UNCHANGED contextResult
         ELSE ContextReturns(result.context)

\* After the run() of the catch block.
AfterRunInCatch(result) ==
    IF result.threw THEN ContextReturns(JNull) ELSE ContextReturns(result.context)

\* One run() and what follows it up to the next await or the return.
ContextRun ==
    /\ contextPc \in {"run", "rerun", "runCatch"}
    /\ \E outcome \in ContextRunOutcomes :
          /\ runs' = Append(runs, outcome)
          /\ IF contextPc = "runCatch" THEN AfterRunInCatch(run(outcome))
             ELSE AfterRunInTry(run(outcome), contextPc = "run")
    /\ UNCHANGED <<baseUrl, supplementalContext, createVars, llmVars>>

\* await new Promise((r) => setTimeout(r, 800))
ContextSleep ==
    /\ contextPc \in {"sleep", "sleepCatch"}
    /\ contextPc' = IF contextPc = "sleep" THEN "rerun" ELSE "runCatch"
    /\ UNCHANGED <<baseUrl, runs, contextResult, supplementalContext, createVars, llmVars>>

PlanChatId == <<"c", "h", "a", "t", "-", "1">>

\* plan after fetchPlannerContext returned: userContext is handed to
\* generateWorkflowPlan.
PlanCallsPlanner ==
    /\ contextPc = "returned"
    /\ supplementalContext' =
           SetProp(IF contextResult = JNull THEN JObj(<<>>) ELSE contextResult,
                   <<"t", "e", "l", "e", "g", "r", "a", "m", "C", "h", "a", "t", "I", "d">>, JStr(PlanChatId))
    /\ contextPc' = "planned"
    /\ UNCHANGED <<baseUrl, runs, contextResult, createVars, llmVars>>

ContextInit ==
    /\ MonitorOff
    /\ SanOff
    /\ CmpOff
    /\ SvcOff
    /\ CreateOff
    /\ LlmOff
    /\ baseUrl \in BOOLEAN
    /\ contextPc = "call"
    /\ runs = <<>>
    /\ contextResult = JUndefined
    /\ supplementalContext = JUndefined

ContextNext ==
    \/ (ContextBegin /\ UNCHANGED <<monitorVars, sanVars, cmpVars, svcVars>>)
    \/ (ContextRun /\ UNCHANGED <<monitorVars, sanVars, cmpVars, svcVars>>)
    \/ (ContextSleep /\ UNCHANGED <<monitorVars, sanVars, cmpVars, svcVars>>)
    \/ (PlanCallsPlanner /\ UNCHANGED <<monitorVars, sanVars, cmpVars, svcVars>>)

SpecContext == ContextInit /\ [][ContextNext]_vars

(***************************************************************************)
(* Claims about the context fetch.                                         *)
(***************************************************************************)
\* A run that gave no context: an error of the network, a timeout, a status
\* that is no success, a payload that is not the expected JSON.
IsFailedRun(outcome) ==
    \/ outcome.kind = "error"
    \/ outcome.kind = "response" /\ (outcome.status < 200 \/ outcome.status > 299)
    \/ outcome.kind = "response"
       /\ outcome.text \in {<<"{", "\"", "s", "u", "c", "c", "e", "s", "s", "\"", ":", "f", "a", "l", "s", "e", "}">>, <<"<", "h", "t", "m", "l", ">">>,
                            <<"{", "\"", "s", "u", "c", "c", "e", "s", "s", "\"", ":", "t", "r", "u", "e", ",", "\"", "d", "a", "t", "a", "\"", ":", "\"", "n", "o", "n", "e", "\"", "}">>}

ContextFetchOver == contextPc \in {"returned", "planned"}

\* The fetch returns a context or none; it returns no context when there is
\* no base URL or its last run failed.
ReturnsNoContextOnFailure ==
    /\ ContextFetchOver => (contextResult = JNull \/ contextResult.t = "object")
    /\ (ContextFetchOver /\ (runs = <<>> \/ IsFailedRun(runs[Len(runs)])))
           => contextResult = JNull

\* plan has handed the planner its context, which holds the chat id.
PlannerHandedContext ==
    contextPc = "planned" =>
        Get(supplementalContext, <<"t", "e", "l", "e", "g", "r", "a", "m", "C", "h", "a", "t", "I", "d">>) = JStr(<<"c", "h", "a", "t", "-", "1">>)

\* C29: the context fetch never throws: without a base URL, on a status that
\* is no success, on a malformed payload, on a network error and on a
\* timeout it returns no context, after at most one retry, and plan goes on
\* to invoke the planner.
C29_NoContextAfterOneRetry ==
    /\ ReturnsNoContextOnFailure
    /\ Len(runs) <= 2
    /\ PlannerHandedContext
(***************************************************************************)
(* Claims about goal detection by the scheduled tracker.                   *)
(***************************************************************************)
\* A list poll made while the window is open has returned a run whose status
\* is SUCCESS and which holds a successful SWAP node.
ReportedSwapSuccess ==
    /\ schedPc = "iter"
    /\ now < timeoutAt
    /\ execIdx <= Len(execList)
    /\ execList[execIdx].st.status = "SUCCESS"
    /\ \E i \in 1..Len(execList[execIdx].st.nodeExecutions) :
          /\ execList[execIdx].st.nodeExecutions[i].node_type = "SWAP"
          /\ execList[execIdx].st.nodeExecutions[i].status = "SUCCESS"

\* C31: once a poll made in the open window has returned a run of the watched
\* workflow with status SUCCESS and a successful SWAP node, the tracker ends
\* by cancelling the recurring trigger and never sends the timeout
\* notification, whatever status that run had when a poll first returned it.
C31_SwapSuccessNeverTimesOut ==
    [](ReportedSwapSuccess => [](TimeoutMsgs = {}))
(***************************************************************************)
(* Claims about the invariant check after compilation.                     *)
(***************************************************************************)
\* The two failures of a plan without steps to compile.
StructureErrors ==
    { "Cannot compile workflow: planner returned no steps.",
      "Cannot compile workflow: time-block trigger requires at least one downstream action step." }

\* C32: compiling a plan of catalog block ids, the scheduling block at any
\* position, either returns a workflow or fails because the plan has no
\* steps or no action step; the check of the compiled graph never fails.
C32_SanitizedPlansPassValidation ==
    (/\ cmpPc = "done"
     /\ \A i \in DOMAIN cmpOptions.plan.steps :
           cmpOptions.plan.steps[i].blockId \in VALID_PLANNER_BLOCK_IDS)
        => (cmpResult.ok \/ cmpResult.error \in StructureErrors)
(***************************************************************************)
(* Claims about the number of requests of a client call.                   *)
(***************************************************************************)
\* Where execute began its second createWorkflow call, 0 if it has not.
PatchedAt ==
    IF \E i \in DOMAIN createLog : createLog[i] = Patched
    THEN CHOOSE i \in DOMAIN createLog : createLog[i] = Patched
    ELSE 0

\* The requests of the two createWorkflow calls of execute.
RequestsOf(log) == SelectSeq(log, LAMBDA e : e.kind \in {"response", "error"})

FirstCallRequests ==
    RequestsOf(IF PatchedAt = 0 THEN createLog ELSE SubSeq(createLog, 1, PatchedAt - 1))

SecondCallRequests ==
    RequestsOf(IF PatchedAt = 0 THEN <<>> ELSE SubSeq(createLog, PatchedAt + 1, Len(createLog)))

\* The call makes one request when its first request failed with an error
\* that is not retried.
OneRequestWhenNotRetryable(requests) ==
    (/\ requests # <<>>
     /\ ~createAttempt(requests[1]).ok
     /\ ~isRetryableWorkflowError(createAttempt(requests[1]).error))
        => Len(requests) = 1

\* C33: one createWorkflow call makes at most 2 requests, exactly 1 when
\* the first failure is not retryable, and throws the error of its last
\* request; one execute call makes at most 4 workflow-creation requests.
C33_BoundedRetries ==
    /\ Len(FirstCallRequests) <= 2
    /\ Len(SecondCallRequests) <= 2
    /\ OneRequestWhenNotRetryable(FirstCallRequests)
    /\ OneRequestWhenNotRetryable(SecondCallRequests)
    /\ (createPc = "thrown" /\ Fetches # <<>>)
           => (/\ ~createAttempt(Fetches[Len(Fetches)]).ok
               /\ createResult = createAttempt(Fetches[Len(Fetches)]).error)
    /\ Len(Fetches) <= 4

\* execute has made four creation requests: a retried first call that ended
\* with the connection id rejected, and a retried second call that threw.
C33_Witness ==
    /\ createPc = "thrown"
    /\ Len(FirstCallRequests) = 2
    /\ Len(SecondCallRequests) = 2
    /\ createResult = createAttempt(Fetches[4]).error
    /\ Fetches[4] # Fetches[3]
(***************************************************************************)
(* Planner client: generateWorkflowPlan and its retry loop, and plan's     *)
(* await of it.                                                            *)
(***************************************************************************)
MAX_RETRIES_PER_MODEL == 2
RETRY_BASE_DELAY_MS == 1200
HARD_CODED_MODEL == [id |-> "eigencloud-gpt-oss"]

\* What signedRequest gives callChat: the response with its parsed body
\* (payload), or the error fetch rejects with.
ChatRejected(message) == [kind |-> "error", message |-> message]

ChatResponse(status, payload) == [kind |-> "response", status |-> status, payload |-> payload]

\* safeJsonParse(response.text): null, or an LlmChatResponse.
Unparsed == [parsed |-> FALSE]

ChatFailure(hasMessage, message) ==
    [parsed |-> TRUE, success |-> FALSE, hasMessage |-> hasMessage, message |-> message]

ChatSuccess(data) == [parsed |-> TRUE, success |-> TRUE, data |-> data]

\* `llm-service returned ${response.status}`
StatusMessage(status) ==
    CASE status = 429 -> "llm-service returned 429"
      [] status = 500 -> "llm-service returned 500"
      [] status = 503 -> "llm-service returned 503"

callChat(outcome) ==
    IF outcome.kind = "error" THEN Threw(outcome.message)
    ELSE IF ~IsOkStatus(outcome.status) THEN Threw(StatusMessage(outcome.status))
    ELSE IF ~outcome.payload.parsed THEN Threw("Invalid response")
    ELSE IF ~outcome.payload.success
         THEN Threw(IF outcome.payload.hasMessage THEN outcome.payload.message
                    ELSE "Provider returned error")
    ELSE Returned(outcome.payload)

\* The body of the try block: callChat, parsePlannerPayload,
\* sanitizePlannerResult.
planAttempt(outcome) ==
    With(callChat(outcome), LAMBDA response :
        IF ~response.ok THEN response
        ELSE With(parsePlannerPayload(response.value.data), LAMBDA parsed :
                 IF ~parsed.ok THEN parsed ELSE sanitizePlannerResult(parsed.value)))

PlanJson(name, blockId) ==
    JObj(<<Prop(<<"w", "o", "r", "k", "f", "l", "o", "w", "N", "a", "m", "e">>, JStr(name)),
           Prop(<<"s", "t", "e", "p", "s">>, JArr(<<JObj(<<Prop(<<"b", "l", "o", "c", "k", "I", "d">>, JStr(blockId)),
                                       Prop(<<"p", "u", "r", "p", "o", "s", "e">>, JStr(<<"D", "o", " ", "i", "t">>))>>)>>))>>)

\* response.data of the successful responses.
ChatData ==
    { [json |-> PlanJson(<<"P", "r", "i", "c", "e", " ", "a", "l", "e", "r", "t">>, <<"t", "e", "l", "e", "g", "r", "a", "m">>), text |-> JUndefined],
      [json |-> PlanJson(<<"P", "r", "i", "c", "e", " ", "w", "a", "t", "c", "h">>, <<"C", "h", "a", "i", "n", "l", "i", "n", "k", " ", "P", "r", "i", "c", "e", " ", "O", "r", "a", "c", "l", "e">>), text |-> JUndefined],
      [json |-> PlanJson(<<"T", "e", "l", "e", "p", "o", "r", "t">>, <<"t", "e", "l", "e", "p", "o", "r", "t", "e", "r">>), text |-> JUndefined],
      [json |-> JObj(<<Prop(<<"s", "t", "e", "p", "s">>, JArr(<<>>))>>), text |-> JUndefined],
      [json |-> JArr(<<>>), text |-> JUndefined],
      [json |-> JUndefined, text |-> JStr(<<" ", " ", " ">>)],
      [json |-> JUndefined, text |-> JStr(<<"4", "2">>)],
      [json |-> JUndefined, text |-> JStr(<<"I", " ", "c", "a", "n", "n", "o", "t", " ", "h", "e", "l", "p", " ", "{", "w", "i", "t", "h", " ", "t", "h", "a", "t", "}">>)] }

\* What the planner service and the network do with a request.
ChatOutcomes ==
    { ChatRejected("fetch failed"),
      ChatResponse(500, Unparsed),
      ChatResponse(503, ChatFailure(TRUE, "upstream unavailable")),
      ChatResponse(429, ChatSuccess([json |-> PlanJson(<<"P", "r", "i", "c", "e", " ", "a", "l", "e", "r", "t">>, <<"t", "e", "l", "e", "g", "r", "a", "m">>),
                                     text |-> JUndefined])),
      ChatResponse(200, Unparsed),
      ChatResponse(200, ChatFailure(TRUE, "quota exceeded")),
      ChatResponse(200, ChatFailure(FALSE, "")) }
    \cup {ChatResponse(200, ChatSuccess(d)) : d \in ChatData}

\* `${HARD_CODED_MODEL.id} attempt ${attempt}: ${message}`
FailureOf(n, message) == [model |-> HARD_CODED_MODEL.id, attempt |-> n, message |-> message]

\* failures.slice(-4)
LastFour(s) == IF Len(s) <= 4 THEN s ELSE SubSeq(s, Len(s) - 3, Len(s))

\* new Error(`Planner request failed after retries. ${detail}`)
RetriesFailed(detail) ==
    [ok |-> FALSE, error |-> "Planner request failed after retries.", detail |-> detail]

\* The catch block, and the throw after the loop when this was the last turn.
AfterPlanAttempt_NoRetry(r) ==
    IF r.ok
    THEN /\ llmPc' = "returned"
         /\ llmResult' = r
         /\ UNCHANGED failures
    ELSE /\ failures' = Append(failures, FailureOf(llmAttempt, r.error))
         /\ llmPc' = "thrown"
         /\ llmResult' = RetriesFailed(LastFour(failures'))
AfterPlanAttempt(r) ==
    IF r.ok
    THEN /\ llmPc' = "returned"
         /\ llmResult' = r
         /\ UNCHANGED failures
    ELSE /\ failures' = Append(failures, FailureOf(llmAttempt, r.error))
         /\ IF llmAttempt < MAX_RETRIES_PER_MODEL
            THEN /\ llmPc' = "sleep"
                 /\ UNCHANGED llmResult
            ELSE /\ llmPc' = "thrown"
                 /\ llmResult' = RetriesFailed(LastFour(failures'))

\* One turn of the loop up to its return, its sleep, or the throw after it.
LlmChat ==
    /\ llmPc = "chat"
    /\ \E outcome \in ChatOutcomes :
          /\ chatLog' = Append(chatLog, outcome)
          /\ AfterPlanAttempt(planAttempt(outcome))
    /\ UNCHANGED <<baseUrl, llmAttempt, createVars, contextVars>>

\* await sleep(delay); attempt += 1
LlmSleep ==
    /\ llmPc = "sleep"
    /\ chatLog' = Append(chatLog, Slept(RETRY_BASE_DELAY_MS * Pow2(llmAttempt - 1)))
    /\ llmAttempt' = llmAttempt + 1
    /\ llmPc' = "chat"
    /\ UNCHANGED <<baseUrl, failures, llmResult, createVars, contextVars>>

\* let plannerResult = await this.config.llmClient.generateWorkflowPlan(...)
\* in plan: the plan goes on with the result, or rejects with the error.
PlanAwaits ==
    /\ llmPc \in {"returned", "thrown"}
    /\ llmPc' = IF llmPc = "returned" THEN "planned" ELSE "rejected"
    /\ UNCHANGED <<baseUrl, llmAttempt, failures, chatLog, llmResult, createVars, contextVars>>

PlannerInit ==
    /\ MonitorOff
    /\ SanOff
    /\ CmpOff
    /\ SvcOff
    /\ baseUrl = TRUE
    /\ CreateOff
    /\ ContextOff
    /\ llmPc = "chat"
    /\ llmAttempt = 1
    /\ failures = <<>>
    /\ chatLog = <<>>
    /\ llmResult = JUndefined

PlannerNext ==
    \/ (LlmChat /\ UNCHANGED <<monitorVars, sanVars, cmpVars, svcVars>>)
    \/ (LlmSleep /\ UNCHANGED <<monitorVars, sanVars, cmpVars, svcVars>>)
    \/ (PlanAwaits /\ UNCHANGED <<monitorVars, sanVars, cmpVars, svcVars>>)

SpecPlanner == PlannerInit /\ [][PlannerNext]_vars
(***************************************************************************)
(* Claims about the retries of the planner client.                         *)
(***************************************************************************)
\* The planner requests so far, without the sleeps.
ChatRequests == SelectSeq(chatLog, LAMBDA e : e.kind \in {"response", "error"})

\* The responses a plan comes out of, with its name and its block ids.
PlansExpected ==
    { <<ChatResponse(200, ChatSuccess([json |-> PlanJson(<<"P", "r", "i", "c", "e", " ", "a", "l", "e", "r", "t">>, <<"t", "e", "l", "e", "g", "r", "a", "m">>),
                                       text |-> JUndefined])),
        <<"P", "r", "i", "c", "e", " ", "a", "l", "e", "r", "t">>, <<<<"t", "e", "l", "e", "g", "r", "a", "m">>>>>>,
      <<ChatResponse(200, ChatSuccess([json |-> PlanJson(<<"P", "r", "i", "c", "e", " ", "w", "a", "t", "c", "h">>, <<"C", "h", "a", "i", "n", "l", "i", "n", "k", " ", "P", "r", "i", "c", "e", " ", "O", "r", "a", "c", "l", "e">>),
                                       text |-> JUndefined])),
        <<"P", "r", "i", "c", "e", " ", "w", "a", "t", "c", "h">>, <<<<"c", "h", "a", "i", "n", "l", "i", "n", "k">>>>>>,
      <<ChatResponse(200, ChatSuccess([json |-> JUndefined,
                                       text |-> JStr(<<"I", " ", "c", "a", "n", "n", "o", "t", " ", "h", "e", "l", "p", " ", "{", "w", "i", "t", "h", " ", "t", "h", "a", "t", "}">>)])),
        <<"N", "e", "e", "d", " ", "C", "l", "a", "r", "i", "f", "i", "c", "a", "t", "i", "o", "n">>, <<<<"t", "e", "l", "e", "g", "r", "a", "m">>>>>> }

AttemptSucceeds(outcome) == \E row \in PlansExpected : row[1] = outcome

\* The plan is the sanitized plan of this response.
IsPlanOf(result, outcome) ==
    /\ result.ok
    /\ \E row \in PlansExpected :
          /\ row[1] = outcome
          /\ result.value.workflowName = row[2]
          /\ [i \in DOMAIN result.value.steps |-> result.value.steps[i].blockId] = row[3]

CallsReturned ==
    \A p \in Procs : \/ procs[p].pc = "idle"
                     \/ procs[p].pc = "done" /\ procs[p].result.ok

\* The backend made id for the workflow named workflowId: both come from
\* the same call.
BelongsTo(prefix, id, workflowId) ==
    \E n \in 1..MaxCalls : /\ id = JStr(BackendId(prefix, n))
                           /\ workflowId = JStr(BackendId(<<"w", "f", "-">>, n))

\* C35: after successful plan and execute calls, a session's lastExecutionId
\* is an execution of the workflow its lastWorkflowId names, and its
\* lastTimeBlockId is a recurring trigger of that workflow.
C35_SessionIdsOfOneWorkflow ==
    CallsReturned =>
        \A key \in DOMAIN sessions :
            /\ sessions[key].lastExecutionId # JUndefined
                  => BelongsTo(<<"e", "x", "-">>, sessions[key].lastExecutionId,
                               sessions[key].lastWorkflowId)
            /\ sessions[key].lastTimeBlockId # JUndefined
                  => BelongsTo(<<"t", "b", "-">>, sessions[key].lastTimeBlockId,
                               sessions[key].lastWorkflowId)

\* The first call made on the service was an execute, and it threw.
FirstCallIsFailedExecute ==
    /\ started = 1
    /\ \E p \in Procs : /\ procs[p].kind = "execute"
                        /\ procs[p].pc = "done"
                        /\ ~procs[p].result.ok

\* C36: an execute that throws leaves the session of its key as it was
\* before the call: when the first call on the service is an execute that
\* throws, the store is still empty.
C36_FailedExecuteLeavesSession ==
    FirstCallIsFailedExecute => sessions = <<>>

\* The call resolved the identity link of the chat.
ResolvedLink(L) ==
    \E i \in DOMAIN L.calls : /\ L.calls[i].op = "fetchTelegramConnection"
                              /\ L.calls[i].outcome # JNull

\* The user id the call names to the workflow backend, and the one it returns.
ActsAs(L, userId) ==
    /\ \A i \in DOMAIN L.calls :
          L.calls[i].op \in {"createWorkflow", "createTimeBlock", "executeWorkflow"}
              => L.calls[i].userId = userId
    /\ (L.pc = "done" /\ L.result.ok) => L.result.value.executionUserId = userId

\* C37: execute calls the workflow backend, and returns executionUserId, as
\* the userId of its request, or as the linked user when the identity link
\* was resolved in this call; never as a user id an earlier call of another
\* user left in the session of the key.
C37_ActsAsRequestUser ==
    \A p \in Procs :
        procs[p].kind = "execute" =>
            IF ResolvedLink(procs[p])
            THEN ActsAs(procs[p], <<"p", "r", "i", "v", "y", "-", "1">>)
            ELSE ActsAs(procs[p], procs[p].request.userId)

\* The recurrence and the stop conditions of the compiled trigger node.
TriggerRecurrence(L) == Get(L.payload.nodes[1].config, <<"r", "e", "c", "u", "r", "r", "e", "n", "c", "e">>)

TriggerDuration(L) ==
    Get(Get(L.payload.nodes[1].config, <<"s", "t", "o", "p", "C", "o", "n", "d", "i", "t", "i", "o", "n", "s">>), <<"d", "u", "r", "a", "t", "i", "o", "n", "S", "e", "c", "o", "n", "d", "s">>)

\* The registered recurrence has the type and the parameters of the one the
\* trigger node holds.
SameRecurrence(registered, compiled) ==
    \/ /\ registered.type = "INTERVAL"
       /\ Get(compiled, <<"t", "y", "p", "e">>) = JStr(<<"I", "N", "T", "E", "R", "V", "A", "L">>)
       /\ Get(compiled, <<"i", "n", "t", "e", "r", "v", "a", "l", "S", "e", "c", "o", "n", "d", "s">>) = JNum(registered.intervalSeconds)
    \/ /\ registered.type = "CRON"
       /\ Get(compiled, <<"t", "y", "p", "e">>) = JStr(<<"C", "R", "O", "N">>)
       /\ Get(compiled, <<"c", "r", "o", "n", "E", "x", "p", "r", "e", "s", "s", "i", "o", "n">>) = JStr(registered.cronExpression)

\* C38: the recurrence execute registers for a scheduled plan has the type
\* and the parameters of the recurrence in the compiled trigger node's
\* config, and it ends durationSeconds of that config after registration.
C38_RegisteredAsCompiled ==
    \A p \in Procs : \A i \in DOMAIN procs[p].calls :
        procs[p].calls[i].op = "createTimeBlock" =>
            /\ SameRecurrence(procs[p].calls[i].arg.recurrence, TriggerRecurrence(procs[p]))
            /\ JNum(procs[p].calls[i].arg.durationMs \div 1000) = TriggerDuration(procs[p])
            /\ procs[p].calls[i].arg.durationMs % 1000 = 0
(***************************************************************************)
(* Claims about the cancellation of the recurring trigger.                 *)
(***************************************************************************)
\* A run the tracker has handled whose success stops it: a signed run that
\* the wait saw succeed, or a successful run in which the swap took place.
QualifyingSuccess(e) ==
    /\ e \in seenExecutionIds
    /\ executions[e].status = "SUCCESS"
    /\ \/ e \in signingSentForExecution /\ waitExec = e /\ waitResult.status = "SUCCESS"
       \/ \E i \in 1..Len(executions[e].nodeExecutions) :
             /\ executions[e].nodeExecutions[i].node_type = "SWAP"
             /\ executions[e].nodeExecutions[i].status = "SUCCESS"
       \/ executions[e].durationMs > 10000

\* C39: a scheduled tracker asks for the cancellation of the recurring
\* trigger at most once, only after a qualifying successful run and in the
\* step in which it stops; never when it ends because the window is over;
\* and when the request fails the success notification is still sent and
\* the tracker still stops.
C39_CancelsOnceOnSuccess ==
    /\ [](Len(cancels) <= 1)
    /\ [](cancels # <<>> => \E e \in ExecIds : QualifyingSuccess(e))
    /\ [][cancels' # cancels => (schedPc # "done" /\ schedPc' = "done")]_vars
    /\ [](TimeoutMsgs # {} => cancels = <<>>)
    /\ [](cancels # <<>> =>
              (schedPc = "done" /\ \E e \in ExecIds : MessagesOf("swapDone", e) # {}))

\* The cancellation request failed; the success notification was sent and
\* the tracker has stopped.
C39_Witness ==
    /\ cancels = <<[ok |-> FALSE]>>
    /\ schedPc = "done"
    /\ \E e \in ExecIds : MessagesOf("swapDone", e) # {} /\ QualifyingSuccess(e)
    /\ TimeoutMsgs = {}

=============================================================================
